---- MODULE Spec2Model ----
(***************************************************************************)
(* Request pipeline of the Refyne TypeScript SDK: fetchWithRetry (cache    *)
(* lookup, transport attempts, retry waits, cache store) followed by the   *)
(* client's onResponse middleware (one-time API version check, error       *)
(* classification), over a MemoryCache and a clock.  fetchWithRetry is the *)
(* fetch of the HTTP client: the middleware runs on every Response it      *)
(* returns, the synthetic one of a cache hit included.  (The constructor   *)
(* in client.ts builds the HTTP client without handing it the function;    *)
(* the model follows the pipeline the function is written for.)            *)
(*                                                                         *)
(* Conventions.  An optional JavaScript number (undefined, or NaN out of   *)
(* parseInt) is a sequence: << >> for undefined/NaN, <<n>> for n.  A       *)
(* header string is a sequence of one-character strings; an absent header  *)
(* (null) and the empty string are both << >>, which the code treats alike *)
(* (both are falsy).                                                       *)
(***************************************************************************)
EXTENDS Integers, Sequences, FiniteSets, TLC

\* ------------------------------------------------------------------ bounds
MaxCacheCalls == 4
MaxRetriesBound == 2
MaxRetriesCached == 1
MaxCalls == 2
MaxNow == 1000

\* ------------------------------------------------------- program constants
DEFAULT_BASE_MS == 1000
DEFAULT_MAX_MS == 30000
DEFAULT_RETRY_AFTER_FETCH == 1
DEFAULT_RETRY_AFTER_ERROR == 60

\* --------------------------------------------------------------- numbers
NaN == << >>
Num(n) == <<n>>
IsNaN(x) == x = << >>
Times(x, k) == IF IsNaN(x) THEN NaN ELSE Num(x[1] * k)

Digits == {"0", "1", "2", "3", "4", "5", "6", "7", "8", "9"}

DigitVal(c) ==
    CASE c = "0" -> 0 [] c = "1" -> 1 [] c = "2" -> 2 [] c = "3" -> 3
      [] c = "4" -> 4 [] c = "5" -> 5 [] c = "6" -> 6 [] c = "7" -> 7
      [] c = "8" -> 8 [] c = "9" -> 9

RECURSIVE SkipSpaces(_)
SkipSpaces(s) ==
    IF s # << >> /\ Head(s) = " " THEN SkipSpaces(Tail(s)) ELSE s

RECURSIVE DigitRun(_)
\* the longest prefix of s made of decimal digits
DigitRun(s) ==
    IF s # << >> /\ Head(s) \in Digits
    THEN <<Head(s)>> \o DigitRun(Tail(s))
    ELSE << >>

RECURSIVE DecimalValue(_, _)
DecimalValue(ds, acc) ==
    IF ds = << >> THEN acc
    ELSE DecimalValue(Tail(ds), acc * 10 + DigitVal(Head(ds)))

\* parseInt(s, 10): leading white space skipped, one optional sign, then the
\* longest run of digits; NaN when that run is empty; what follows is ignored
ParseInt(s) ==
    LET t == SkipSpaces(s)
        signed == t # << >> /\ Head(t) \in {"+", "-"}
        body == IF signed THEN Tail(t) ELSE t
        ds == DigitRun(body)
        v == DecimalValue(ds, 0)
    IN  IF ds = << >> THEN NaN
        ELSE IF signed /\ Head(t) = "-" THEN Num(0 - v) ELSE Num(v)

RECURSIVE Pow2(_)
Pow2(n) == IF n <= 0 THEN 1 ELSE 2 * Pow2(n - 1)

Min(a, b) == IF a <= b THEN a ELSE b

\* ------------------------------------------------------------- backoff
\* Math.random() is drawn in hundredths: j stands for j / 100
RandomDraws == {0, 99}

\* the jitter taken from the delay before it is capped
calculateBackoffWithJitter_UncappedJitter(attempt, baseMs, maxMs, j) ==
    LET exponentialDelay == Pow2(attempt - 1) * baseMs
        cappedDelay == Min(exponentialDelay, maxMs)
    IN  cappedDelay + ((j * exponentialDelay) \div 400)

\* a delay that starts from the base whatever the attempt
calculateBackoffWithJitter_FromBase(attempt, baseMs, maxMs, j) ==
    LET cappedDelay == Min(baseMs, maxMs)
    IN  cappedDelay + ((j * cappedDelay) \div 400)

\* floor(cappedDelay + (j/100) * 0.25 * cappedDelay)
calculateBackoffWithJitter(attempt, baseMs, maxMs, j) ==
    LET exponentialDelay == Pow2(attempt - 1) * baseMs
        cappedDelay == Min(exponentialDelay, maxMs)
    IN  cappedDelay + ((j * cappedDelay) \div 400)

\* RetryAfterDelay held to the ceiling of the backoff policy
RetryAfterDelay_Capped(header) ==
    LET retryAfter == IF header = << >>
                      THEN Num(DEFAULT_RETRY_AFTER_FETCH)
                      ELSE ParseInt(header)
        delayMs == Times(retryAfter, 1000)
    IN  IF IsNaN(delayMs) THEN delayMs ELSE Num(Min(delayMs[1], DEFAULT_MAX_MS))

\* the delay of a 429 retry: parseInt(header || '1', 10) * 1000
RetryAfterDelay(header) ==
    LET retryAfter == IF header = << >>
                      THEN Num(DEFAULT_RETRY_AFTER_FETCH)
                      ELSE ParseInt(header)
    IN  Times(retryAfter, 1000)

\* ---------------------------------------------------- Cache-Control
\* A Cache-Control header is the sequence of its comma-separated parts, each
\* already trimmed: text is the part up to and including its first "=" (the
\* whole part when it has none), arg the characters after that "=".
ToLowerCase(text) ==
    CASE text = "No-Store" -> "no-store"
      [] text = "Max-Age=" -> "max-age="
      [] text = "MAX-AGE=" -> "max-age="
      [] text = "PRIVATE" -> "private"
      [] OTHER -> text

NoDirectives ==
    [maxAge |-> NaN, noStore |-> FALSE, noCache |-> FALSE, private |-> FALSE,
     staleWhileRevalidate |-> NaN]

\* one iteration of the loop over the parts
ApplyDirective(directives, part) ==
    LET text == ToLowerCase(part.text)
        value == ParseInt(part.arg)
    IN  IF text = "no-store" /\ part.arg = << >>
        THEN [directives EXCEPT !.noStore = TRUE]
        ELSE IF text = "no-cache" /\ part.arg = << >>
        THEN [directives EXCEPT !.noCache = TRUE]
        ELSE IF text = "private" /\ part.arg = << >>
        THEN [directives EXCEPT !.private = TRUE]
        ELSE IF text = "max-age="
        THEN IF ~IsNaN(value) THEN [directives EXCEPT !.maxAge = value]
             ELSE directives
        ELSE IF text = "stale-while-revalidate="
        THEN IF ~IsNaN(value)
             THEN [directives EXCEPT !.staleWhileRevalidate = value]
             ELSE directives
        ELSE directives

RECURSIVE ParseParts(_, _)
ParseParts(parts, directives) ==
    IF parts = << >> THEN directives
    ELSE ParseParts(Tail(parts), ApplyDirective(directives, Head(parts)))

parseCacheControl(header) ==
    IF header = << >> THEN NoDirectives ELSE ParseParts(header, NoDirectives)

\* createCacheEntry that adds max-age to the clock without scaling it
createCacheEntry_Unscaled(value, header, t) ==
    LET cacheControl == parseCacheControl(header)
    IN  IF cacheControl.noStore THEN << >>
        ELSE IF ~IsNaN(cacheControl.maxAge)
        THEN << [value |-> value,
                 expiresAt |-> t + cacheControl.maxAge[1],
                 cacheControl |-> cacheControl] >>
        ELSE << >>

\* createCacheEntry(value, header) at clock reading t: << >> when the
\* response is not to be cached, <<entry>> otherwise
createCacheEntry(value, header, t) ==
    LET cacheControl == parseCacheControl(header)
    IN  IF cacheControl.noStore THEN << >>
        ELSE IF ~IsNaN(cacheControl.maxAge)
        THEN << [value |-> value,
                 expiresAt |-> t + cacheControl.maxAge[1] * 1000,
                 cacheControl |-> cacheControl] >>
        ELSE << >>

\* ------------------------------------------------------------ cache key
ToUpperCase(m) ==
    CASE m = "get" -> "GET"
      [] m = "Get" -> "GET"
      [] m = "post" -> "POST"
      [] m = "Post" -> "POST"
      [] OTHER -> m

\* the key built from the method as it was passed
generateCacheKey_AsPassed(method, url, authHash) ==
    IF authHash # "" THEN <<method, url, authHash>>
    ELSE <<method, url>>

\* parts.join(':'), kept as the sequence of the joined parts; the empty
\* string is the join of no parts, << >>
generateCacheKey(method, url, authHash) ==
    IF authHash # "" THEN <<ToUpperCase(method), url, authHash>>
    ELSE <<ToUpperCase(method), url>>

\* ---------------------------------------------------------- MemoryCache
\* The Map in insertion order: a sequence of [key, entry] with distinct keys.
RECURSIVE IndexOfKey(_, _, _)
IndexOfKey(st, key, i) ==
    IF i > Len(st) THEN 0
    ELSE IF st[i].key = key THEN i
    ELSE IndexOfKey(st, key, i + 1)

MapHas(st, key) == IndexOfKey(st, key, 1) # 0

MapGet(st, key) == st[IndexOfKey(st, key, 1)].entry

MapDelete(st, key) ==
    LET i == IndexOfKey(st, key, 1)
    IN  IF i = 0 THEN st
        ELSE SubSeq(st, 1, i - 1) \o SubSeq(st, i + 1, Len(st))

\* Map.set: an existing key keeps its place, a new key goes last
MapSet(st, key, entry) ==
    LET i == IndexOfKey(st, key, 1)
    IN  IF i = 0 THEN Append(st, [key |-> key, entry |-> entry])
        ELSE [st EXCEPT ![i] = [key |-> key, entry |-> entry]]

\* the stale window with its deadline included
StaleServable_Inclusive(entry, t) ==
    /\ ~IsNaN(entry.cacheControl.staleWhileRevalidate)
    /\ entry.cacheControl.staleWhileRevalidate[1] # 0
    /\ t <= entry.expiresAt + entry.cacheControl.staleWhileRevalidate[1] * 1000

\* the stale-while-revalidate test of get: the field is truthy and the
\* stale deadline is not reached
StaleServable(entry, t) ==
    /\ ~IsNaN(entry.cacheControl.staleWhileRevalidate)
    /\ entry.cacheControl.staleWhileRevalidate[1] # 0
    /\ t < entry.expiresAt + entry.cacheControl.staleWhileRevalidate[1] * 1000

\* MemoryCacheGet that drops every expired entry, stale window or not
MemoryCacheGet_NoStale(st, key, t) ==
    IF ~MapHas(st, key) THEN [entry |-> << >>, store |-> st]
    ELSE LET entry == MapGet(st, key)
         IN  IF entry.expiresAt < t
             THEN [entry |-> << >>, store |-> MapDelete(st, key)]
             ELSE [entry |-> <<entry>>, store |-> st]

\* MemoryCache.get at clock reading t: the entry returned (<< >> for
\* undefined) and the store afterwards
MemoryCacheGet(st, key, t) ==
    IF ~MapHas(st, key) THEN [entry |-> << >>, store |-> st]
    ELSE LET entry == MapGet(st, key)
         IN  IF entry.expiresAt < t
             THEN IF StaleServable(entry, t)
                  THEN [entry |-> <<entry>>, store |-> st]
                  ELSE [entry |-> << >>, store |-> MapDelete(st, key)]
             ELSE [entry |-> <<entry>>, store |-> st]

\* a delete that empties the store when it finds the key
MemoryCacheDelete_All(st, key) == IF MapHas(st, key) THEN << >> ELSE st

\* MemoryCache.delete and MemoryCache.clear: the store afterwards
MemoryCacheDelete(st, key) == MapDelete(st, key)

MemoryCacheClear(st) == << >>

\* the key set evicts, <<key>>, or << >> when it evicts none: the store is at
\* capacity and its first key is truthy
EvictedKey(st, entry, capacity) ==
    IF entry.cacheControl.noStore THEN << >>
    ELSE IF Len(st) >= capacity /\ st # << >> /\ st[1].key # << >>
    THEN << st[1].key >>
    ELSE << >>

\* a set that makes room before it looks at noStore
MemoryCacheSet_EvictFirst(st, key, entry, capacity) ==
    LET evicted == IF Len(st) >= capacity /\ st # << >> /\ st[1].key # << >>
                   THEN MapDelete(st, st[1].key)
                   ELSE st
    IN  IF entry.cacheControl.noStore THEN evicted
        ELSE MapSet(evicted, key, entry)

\* MemoryCache.set: the store afterwards
MemoryCacheSet(st, key, entry, capacity) ==
    IF entry.cacheControl.noStore THEN st
    ELSE LET evicted == IF Len(st) >= capacity /\ st # << >> /\ st[1].key # << >>
                        THEN MapDelete(st, st[1].key)
                        ELSE st
         IN  MapSet(evicted, key, entry)

\* --------------------------------------------------------------- JSON
\* response.json(): << >> when the body is not JSON (json() throws),
\* <<value>> otherwise; two texts may denote the same value
JsonParse(text) ==
    CASE text = "{id:1}" -> <<"obj1">>
      [] text = "{ id: 1 }" -> <<"obj1">>
      [] text = "{id:2}" -> <<"obj2">>
      [] text = "{\"error\":\"x\"}" -> <<"errobj">>
      [] text = "null" -> <<"null">>
      [] OTHER -> << >>

JsonStringify(value) ==
    CASE value = "obj1" -> "{id:1}"
      [] value = "obj2" -> "{id:2}"
      [] value = "errobj" -> "{\"error\":\"x\"}"
      [] OTHER -> "null"

\* ------------------------------------------------------------ versions
\* A version string is [parts, pre]: parts the dot-separated fields before
\* any "-" (a field that is not all digits is -1), pre the text after the
\* first "-" (<< >> when there is no "-").  It matches
\* /^(\d+)\.(\d+)\.(\d+)(?:-(.+))?$/ iff it has three numeric fields.
VersionMatches(version) ==
    /\ Len(version.parts) = 3
    /\ \A i \in 1 .. 3 : version.parts[i] >= 0

parseVersion(version) ==
    IF ~VersionMatches(version)
    THEN [major |-> 0, minor |-> 0, patch |-> 0, prerelease |-> << >>]
    ELSE [major |-> version.parts[1], minor |-> version.parts[2],
          patch |-> version.parts[3], prerelease |-> version.pre]

\* a comparison that stops at the minor field
compareVersions_NoPatch(a, b) ==
    LET va == parseVersion(a)
        vb == parseVersion(b)
    IN  IF va.major # vb.major THEN (IF va.major < vb.major THEN -1 ELSE 1)
        ELSE IF va.minor # vb.minor THEN (IF va.minor < vb.minor THEN -1 ELSE 1)
        ELSE 0

compareVersions(a, b) ==
    LET va == parseVersion(a)
        vb == parseVersion(b)
    IN  IF va.major # vb.major THEN (IF va.major < vb.major THEN -1 ELSE 1)
        ELSE IF va.minor # vb.minor THEN (IF va.minor < vb.minor THEN -1 ELSE 1)
        ELSE IF va.patch # vb.patch THEN (IF va.patch < vb.patch THEN -1 ELSE 1)
        ELSE 0

\* checkAPIVersionCompatibility that also rejects the minimum itself
checkAPIVersionCompatibility_Inclusive(apiVersion, minApi, maxKnownApi) ==
    IF compareVersions(apiVersion, minApi) <= 0 THEN "throw"
    ELSE IF parseVersion(apiVersion).major > parseVersion(maxKnownApi).major
    THEN "warn"
    ELSE "pass"

\* checkAPIVersionCompatibility against the constants of the build:
\* "throw", "warn" or "pass"
checkAPIVersionCompatibility(apiVersion, minApi, maxKnownApi) ==
    IF compareVersions(apiVersion, minApi) < 0 THEN "throw"
    ELSE IF parseVersion(apiVersion).major > parseVersion(maxKnownApi).major
    THEN "warn"
    ELSE "pass"

Version(major, minor, patch) == [parts |-> <<major, minor, patch>>, pre |-> << >>]

\* -------------------------------------------------------------- errors
NoResult == [kind |-> "none", tag |-> "", status |-> 0, body |-> "", retryAfter |-> NaN]

Value(response) ==
    [kind |-> "value", tag |-> "", status |-> response.status,
     body |-> response.body, retryAfter |-> NaN]

Thrown(tag, status) ==
    [kind |-> "error", tag |-> tag, status |-> status, body |-> "", retryAfter |-> NaN]

\* createErrorFromResponse: the class of the error and its fields.  The body
\* is read with response.json() inside a try whose catch keeps the initial
\* {}; a body that is the JSON text null makes errorBody null, and the read
\* of errorBody.error after the try throws a TypeError.
createErrorFromResponse(response) ==
    IF JsonParse(response.body) = <<"null">>
    THEN Thrown("TypeError", 0)
    ELSE
    CASE response.status = 400 -> Thrown("ValidationError", 400)
      [] response.status = 401 -> Thrown("AuthenticationError", 401)
      [] response.status = 403 -> Thrown("ForbiddenError", 403)
      [] response.status = 404 -> Thrown("NotFoundError", 404)
      [] response.status = 429 ->
            [Thrown("RateLimitError", 429) EXCEPT !.retryAfter =
                IF response.retryAfter = << >>
                THEN Num(DEFAULT_RETRY_AFTER_ERROR)
                ELSE ParseInt(response.retryAfter)]
      [] OTHER -> Thrown("RefyneError", response.status)

\* response.ok
Ok(response) == response.status >= 200 /\ response.status <= 299

\* ------------------------------------------------- transport rejections
\* The patterns of isRetryableError that occur in message.toLowerCase()
Fragments(message) ==
    CASE message = "Failed to fetch" -> {"failed to fetch"}
      [] message = "NetworkError when attempting to fetch resource." -> {"network"}
      [] message = "read ECONNRESET" -> {"econnreset"}
      [] message = "connect ECONNREFUSED" -> {"econnrefused"}
      [] message = "Connection closed" -> {"connection"}
      [] OTHER -> {}

isRetryableError(error) ==
    IF error.name = "TypeError"
    THEN Fragments(error.message) \cap
            {"network", "failed to fetch", "connection", "econnreset",
             "econnrefused"} # {}
    ELSE FALSE

\* the inner catch: an AbortError becomes a TimeoutError
InnerCatch(error) ==
    IF error.name = "AbortError"
    THEN [name |-> "TimeoutError", message |-> "Request timed out"]
    ELSE error

\* RetryAllowed with one retry too many
RetryAllowed_OneMore(att, maxRetries) == att <= maxRetries + 1

\* the retry test shared by the 429, 5xx and network branches
RetryAllowed(att, maxRetries) == att <= maxRetries

\* LoopGuard with a strict comparison
LoopGuard_Strict(att, maxRetries) == att < maxRetries \/ att = 0

\* the loop condition
LoopGuard(att, maxRetries) == att <= maxRetries

\* ResponseAction that also retries the other 4xx
ResponseAction_Retry4xx(status, att, maxRetries) ==
    IF status = 429 /\ RetryAllowed(att, maxRetries) THEN "retry-after"
    ELSE IF status >= 400 /\ RetryAllowed(att, maxRetries) THEN "backoff"
    ELSE "return"

\* what the loop body does with a response: "retry-after", "backoff" or
\* "return"
ResponseAction(status, att, maxRetries) ==
    IF status = 429 /\ RetryAllowed(att, maxRetries) THEN "retry-after"
    ELSE IF status >= 500 /\ RetryAllowed(att, maxRetries) THEN "backoff"
    ELSE "return"

\* CatchAction that treats a timeout like a retryable network error
CatchAction_RetryTimeout(error, att, maxRetries) ==
    IF (isRetryableError(error) \/ error.name = "TimeoutError")
       /\ RetryAllowed(att, maxRetries) THEN "backoff"
    ELSE IF error.name \in {"TimeoutError", "RefyneError"} THEN "rethrow"
    ELSE "wrap"

\* CatchAction that rethrows what it does not retry instead of wrapping it
CatchAction_NoWrap(error, att, maxRetries) ==
    IF error.name = "TimeoutError" THEN "rethrow"
    ELSE IF isRetryableError(error) /\ RetryAllowed(att, maxRetries) THEN "backoff"
    ELSE "rethrow"

\* what the outer catch does with what the inner catch threw: "rethrow",
\* "backoff" or "wrap" (throw new NetworkError)
CatchAction(error, att, maxRetries) ==
    IF error.name = "TimeoutError" THEN "rethrow"
    ELSE IF isRetryableError(error) /\ RetryAllowed(att, maxRetries) THEN "backoff"
    ELSE IF error.name \in {"TimeoutError", "RefyneError"} THEN "rethrow"
    ELSE "wrap"

\* the cache lookup at the start of fetchWithRetry applies
CacheLookupApplies(cacheEnabled, m) == cacheEnabled /\ m = "GET"

\* a lookup that takes what get would have returned although get threw
LookupResult_IgnoresThrow(throws, st, got) == got

\* what the lookup leaves in hand: cache.get is awaited inside a try whose
\* catch only logs, so after a throw `cached` was never assigned and the
\* code goes on as after a miss
LookupResult(throws, st, got) ==
    IF throws THEN [entry |-> << >>, store |-> st] ELSE got

\* the store after the write: cache.set is awaited inside a try whose catch
\* only logs; a set that throws has written nothing
StoreResult(throws, st, written) == IF throws THEN st ELSE written

\* a write to the cache that does not look at the method
CacheStoreApplies_AnyMethod(cacheEnabled, m, response) ==
    cacheEnabled /\ Ok(response)

\* the response is offered to the cache before it is returned
CacheStoreApplies(cacheEnabled, m, response) ==
    cacheEnabled /\ m = "GET" /\ Ok(response)

\* the middleware that enters the version check on every 2xx response
VersionCheckDue_EveryOk(checked, response) == Ok(response)

\* the middleware that enters the version check whatever the status
VersionCheckDue_AnyStatus(checked, response) == ~checked

\* the middleware runs the version check on this response
VersionCheckDue(checked, response) == ~checked /\ Ok(response)

\* apiVersionChecked set only when a header was there to check
CheckedAfter_OnlyWhenEvaluated(checked, due, verdict) ==
    checked \/ (due /\ verdict \in {"warn", "pass"})

\* apiVersionChecked after the middleware: the assignment follows the call
\* of checkAPIVersionCompatibility, inside the if that found the check due,
\* and is not reached when the call throws
CheckedAfter(checked, due, verdict) ==
    IF verdict = "throw" THEN checked ELSE (checked \/ due)

\* ------------------------------------------------------------- state
VARIABLES
    config,            \* FetchConfig: maxRetries, cacheEnabled, apiKeyHash
    build,             \* MIN_API_VERSION and MAX_KNOWN_API_VERSION of the build
    maxEntries,        \* MemoryCache.maxEntries
    store,             \* MemoryCache.store
    now,               \* Date.now()
    apiVersionChecked, \* Refyne.apiVersionChecked
    versionEvals,      \* calls of checkAPIVersionCompatibility so far
    versionWarnings,   \* logger.warn calls of the version check so far
    calls,             \* requests started so far
    pc,                \* "idle", "fetching", "sleeping", "responded", "done"
    method,            \* method of the request in hand, upper-cased
    url,               \* its URL
    attempt,           \* the loop's attempt counter
    lastError,         \* the loop's lastError, << >> while undefined
    pending,           \* the sleep in progress
    response,          \* the Response fetchWithRetry returned
    result,            \* how the request ended
    fetches,           \* calls of fetch made for this request
    sleeps,            \* sleeps completed for this request: source and attempt
    hist,              \* transport outcomes of this request: kind and status
    cacheOps,          \* cache operations of this request, in order
    cacheCall,         \* the MemoryCache method called last and what it returned
    cacheCalls,        \* MemoryCache methods called directly so far
    firstSets,         \* the keys set so far, while every call stored a new key
    tracked,           \* one entry made by createCacheEntry and set, while it is kept
    credentials,       \* the API keys of the callers that share one cache
    served,            \* who was last served a cached value, and whose it was
    inflight,          \* requests of one client running concurrently
    applied,           \* an exported function called on its own: arguments, value
    requestInit,       \* the init argument of the running fetchWithRetry call
    received           \* the responses handed to the middleware so far

clientVars == <<config, build, maxEntries, apiVersionChecked, versionEvals,
                versionWarnings, calls>>
callVars == <<pc, method, url, attempt, lastError, pending, response, result,
              fetches, sleeps, hist, cacheOps>>
sideVars == <<cacheCall, cacheCalls, firstSets, tracked, credentials, served,
              inflight, applied, requestInit, received>>
vars == <<clientVars, store, now, callVars, sideVars>>

\* ------------------------------------------------------- environment
Urls == {"/jobs", "/usage"}
Capacities == {1}
Ticks == {500}
MethodInputs == {"", "get", "GET", "POST"}
Bodies == {"{id:1}", "{ id: 1 }", "{id:2}", "<html>"}

Part(text, arg) == [text |-> text, arg |-> arg]
CacheControlHeaders ==
    { << >>,
      << Part("max-age=", <<"1">>) >>,
      << Part("no-store", << >>), Part("Max-Age=", <<"1">>) >>,
      << Part("max-age=", <<"0">>), Part("stale-while-revalidate=", <<"1">>) >>,
      << Part("private", << >>), Part("max-age=", <<"x">>) >> }

RetryAfterHeaders == { << >>, <<"2">>, <<"6", "0">>, <<"W", "e", "d">> }

VersionHeaders ==
    { << >>, <<Version(0, 9, 0)>>, <<Version(1, 0, 0)>>, <<Version(2, 0, 0)>> }

\* The builds explored: the constants as the sources hold them (0.0.0, below
\* which no server version lies, so that checkAPIVersionCompatibility cannot
\* throw), and a build that has raised both to 1.0.0.
Builds ==
    { [MIN_API_VERSION |-> Version(0, 0, 0), MAX_KNOWN_API_VERSION |-> Version(0, 0, 0)],
      [MIN_API_VERSION |-> Version(1, 0, 0), MAX_KNOWN_API_VERSION |-> Version(1, 0, 0)] }

\* The configurations explored: retry chains up to MaxRetriesBound with the
\* cache disabled, and up to MaxRetriesCached with it enabled.
Configs ==
    { c \in [maxRetries : 0 .. MaxRetriesBound, cacheEnabled : BOOLEAN,
             apiKeyHash : {"k7f3"}] :
          c.cacheEnabled => c.maxRetries <= MaxRetriesCached }

Resp(status, retryAfter, cacheControl, apiVersion, body) ==
    [status |-> status, retryAfter |-> retryAfter, cacheControl |-> cacheControl,
     apiVersion |-> apiVersion, body |-> body]

\* Only the headers the code reads for a status are varied, and those of a
\* 2xx one concern at a time: caching against a compatible and an outdated
\* server, the body under a cacheable header, the version alone.  An error
\* response carries a JSON object, the JSON text null, or text that is not
\* JSON.
Responses ==
    { Resp(200, << >>, cc, v, "{id:1}") :
          cc \in CacheControlHeaders, v \in {<< >>, <<Version(0, 9, 0)>>} }
    \cup { Resp(200, << >>, << Part("max-age=", <<"1">>) >>, << >>, b) : b \in Bodies }
    \cup { Resp(200, << >>, << >>, v, "{id:1}") : v \in VersionHeaders }
    \cup { Resp(429, ra, << >>, << >>, "{\"error\":\"x\"}") : ra \in RetryAfterHeaders }
    \cup { Resp(st, << >>, << >>, << >>, "{\"error\":\"x\"}") :
              st \in {304, 400, 401, 404, 500, 503} }
    \cup { Resp(st, << >>, << >>, << >>, "null") : st \in {404, 429, 503} }
    \cup { Resp(404, << >>, << >>, << >>, "<html>") }

FetchRejections ==
    { [name |-> "AbortError", message |-> "This operation was aborted"],
      [name |-> "TypeError", message |-> "Failed to fetch"],
      [name |-> "TypeError", message |-> "fetch failed"],
      [name |-> "Error", message |-> "read ECONNRESET"] }

NoResponse == Resp(0, << >>, << >>, << >>, "")
NoSleep == [ms |-> NaN, source |-> "", attempt |-> 0]
NoCall == [op |-> "", key |-> << >>, entry |-> << >>, returned |-> << >>,
           evicted |-> << >>]
NoSets == [pure |-> TRUE, keys |-> << >>]
NotApplied == << >>
NoInit == << >>

\* --------------------------------------------------------------- Init
Init ==
    /\ config \in Configs
    /\ build \in Builds
    /\ maxEntries \in Capacities
    /\ store = << >>
    /\ now = 0
    /\ apiVersionChecked = FALSE
    /\ versionEvals = 0
    /\ versionWarnings = 0
    /\ calls = 0
    /\ pc = "idle"
    /\ method = ""
    /\ url = ""
    /\ attempt = 0
    /\ lastError = << >>
    /\ pending = NoSleep
    /\ response = NoResponse
    /\ result = NoResult
    /\ fetches = 0
    /\ sleeps = << >>
    /\ hist = << >>
    /\ cacheOps = << >>
    /\ cacheCall = NoCall
    /\ cacheCalls = 0
    /\ firstSets = NoSets
    /\ tracked = << >>
    /\ applied = NotApplied
    /\ requestInit = NoInit
    /\ received = << >>
    /\ credentials = << >>
    /\ served = << >>
    /\ inflight = << >>

\* ------------------------------------------------------------ actions
\* The synthetic Response built from a cache hit
CachedResponse(entry) ==
    Resp(200, << >>, << >>, << >>, JsonStringify(entry.value))

\* fetchWithRetry up to the loop: the cache lookup of a GET, then either the
\* synthetic response or the first evaluation of the loop condition;
\* getThrows tells whether cache.get throws or rejects
StartRequestOn(m, u, getThrows) ==
    /\ pc \in {"idle", "done"}
    /\ calls < MaxCalls
    /\ calls' = calls + 1
    /\ LET mm == IF m = "" THEN "GET" ELSE ToUpperCase(m)
           cacheKey == generateCacheKey(mm, u, config.apiKeyHash)
           lookup == CacheLookupApplies(config.cacheEnabled, mm)
           got == LookupResult(getThrows, store,
                               MemoryCacheGet(store, cacheKey, now))
           hit == lookup /\ got.entry # << >>
       IN  /\ method' = mm
           /\ url' = u
           /\ store' = IF lookup THEN got.store ELSE store
           /\ cacheOps' = IF ~lookup THEN << >>
                          ELSE IF getThrows THEN <<"get-error">>
                          ELSE IF hit THEN <<"get-hit">> ELSE <<"get-miss">>
           /\ IF hit
              THEN /\ pc' = "responded"
                   /\ response' = CachedResponse(got.entry[1])
                   /\ result' = NoResult
              ELSE IF LoopGuard(0, config.maxRetries)
              THEN /\ pc' = "fetching"
                   /\ response' = NoResponse
                   /\ result' = NoResult
              ELSE /\ pc' = "done"
                   /\ response' = NoResponse
                   /\ result' = Thrown("Error", 0)
    /\ attempt' = 0
    /\ lastError' = << >>
    /\ pending' = NoSleep
    /\ fetches' = 0
    /\ sleeps' = << >>
    /\ hist' = << >>
    /\ UNCHANGED <<config, build, maxEntries, apiVersionChecked, versionEvals,
                   versionWarnings, now>>

\* with the MemoryCache, whose get does not throw
StartRequest(m, u) == StartRequestOn(m, u, FALSE)

\* fetchWithRetry(url, { method })
Execute(m, u) ==
    /\ StartRequest(m, u)
    /\ UNCHANGED sideVars

\* one pass of the loop body in which fetch resolves with response r; j is
\* the draw of Math.random() should the pass compute a backoff; setThrows
\* tells whether cache.set throws or rejects
FetchResolvesOn(r, j, setThrows) ==
    /\ pc = "fetching"
    /\ LoopGuard(attempt, config.maxRetries)
    /\ LET a == attempt + 1
           act == ResponseAction(r.status, a, config.maxRetries)
           cacheKey == generateCacheKey(method, url, config.apiKeyHash)
           body == JsonParse(r.body)
           entry == IF body = << >> THEN << >>
                    ELSE createCacheEntry(body[1], r.cacheControl, now)
           caches == /\ act = "return"
                     /\ CacheStoreApplies(config.cacheEnabled, method, r)
                     /\ entry # << >>
       IN  /\ attempt' = a
           /\ fetches' = fetches + 1
           /\ hist' = Append(hist, [kind |-> "response", status |-> r.status])
           /\ IF act = "retry-after"
              THEN /\ pc' = "sleeping"
                   /\ pending' = [ms |-> RetryAfterDelay(r.retryAfter),
                                  source |-> "retry-after", attempt |-> a]
                   /\ response' = r
              ELSE IF act = "backoff"
              THEN /\ pc' = "sleeping"
                   /\ pending' = [ms |-> Num(calculateBackoffWithJitter(a, DEFAULT_BASE_MS,
                                                   DEFAULT_MAX_MS, j)),
                                  source |-> "backoff", attempt |-> a]
                   /\ response' = r
              ELSE /\ pc' = "responded"
                   /\ pending' = NoSleep
                   /\ response' = r
           /\ store' = IF caches
                       THEN StoreResult(setThrows, store,
                                MemoryCacheSet(store, cacheKey, entry[1], maxEntries))
                       ELSE store
           /\ cacheOps' = IF ~caches THEN cacheOps
                          ELSE IF setThrows THEN Append(cacheOps, "set-error")
                          ELSE Append(cacheOps, "set")
    /\ UNCHANGED <<clientVars, now, method, url, lastError, result, sleeps,
                   sideVars>>

\* with the MemoryCache, whose set does not throw
FetchResolves(r, j) == FetchResolvesOn(r, j, FALSE)

\* one pass of the loop body in which fetch rejects with error e (the abort
\* of the timeout timer included)
FetchRejects(e, j) ==
    /\ pc = "fetching"
    /\ LoopGuard(attempt, config.maxRetries)
    /\ LET a == attempt + 1
           thrown == InnerCatch(e)
           act == CatchAction(thrown, a, config.maxRetries)
       IN  /\ attempt' = a
           /\ fetches' = fetches + 1
           /\ hist' = Append(hist, [kind |-> IF e.name = "AbortError"
                                              THEN "timeout" ELSE "network",
                                    status |-> 0])
           /\ lastError' = <<thrown>>
           /\ IF act = "backoff"
              THEN /\ pc' = "sleeping"
                   /\ pending' = [ms |-> Num(calculateBackoffWithJitter(a, DEFAULT_BASE_MS,
                                                   DEFAULT_MAX_MS, j)),
                                  source |-> "backoff", attempt |-> a]
                   /\ result' = result
              ELSE IF act = "rethrow"
              THEN /\ pc' = "done"
                   /\ pending' = NoSleep
                   /\ result' = Thrown(thrown.name, 0)
              ELSE /\ pc' = "done"
                   /\ pending' = NoSleep
                   /\ result' = Thrown("NetworkError", 0)
    /\ UNCHANGED <<clientVars, store, now, method, url, response, sleeps,
                   cacheOps, sideVars>>

\* await sleep(delayMs); continue: the sleep ends and the loop condition is
\* evaluated again; a false condition reaches the throw after the loop
RetryWait ==
    /\ pc = "sleeping"
    /\ sleeps' = Append(sleeps, [source |-> pending.source,
                                  attempt |-> pending.attempt])
    /\ pending' = NoSleep
    /\ IF LoopGuard(attempt, config.maxRetries)
       THEN /\ pc' = "fetching"
            /\ result' = result
       ELSE /\ pc' = "done"
            /\ result' = IF lastError # << >> THEN Thrown(lastError[1].name, 0)
                         ELSE Thrown("Error", 0)
    /\ UNCHANGED <<clientVars, store, now, method, url, attempt, lastError,
                   response, fetches, hist, cacheOps, sideVars>>

\* the onResponse middleware on the Response fetchWithRetry returned
OnResponse ==
    /\ pc = "responded"
    /\ LET due == VersionCheckDue(apiVersionChecked, response)
           evaluated == due /\ response.apiVersion # << >>
           verdict == IF evaluated
                      THEN checkAPIVersionCompatibility(response.apiVersion[1],
                               build.MIN_API_VERSION, build.MAX_KNOWN_API_VERSION)
                      ELSE "skip"
       IN  /\ versionEvals' = IF evaluated THEN versionEvals + 1 ELSE versionEvals
           /\ versionWarnings' = IF verdict = "warn" THEN versionWarnings + 1
                                 ELSE versionWarnings
           /\ IF verdict = "throw"
              THEN result' = Thrown("UnsupportedAPIVersionError", 0)
              ELSE result' = IF ~Ok(response)
                             THEN createErrorFromResponse(response)
                             ELSE Value(response)
           /\ apiVersionChecked' = CheckedAfter(apiVersionChecked, due, verdict)
    /\ pc' = "done"
    /\ response' = NoResponse
    /\ UNCHANGED <<config, build, maxEntries, calls, store, now, method, url,
                   attempt, lastError, pending, fetches, sleeps, hist, cacheOps,
                   sideVars>>

\* time passes
Tick(d) ==
    /\ now + d <= MaxNow
    /\ now' = now + d
    /\ UNCHANGED <<clientVars, store, callVars, sideVars>>

Next ==
    \/ \E m \in MethodInputs, u \in Urls : Execute(m, u)
    \/ \E r \in Responses, j \in RandomDraws : FetchResolves(r, j)
    \/ \E e \in FetchRejections, j \in RandomDraws : FetchRejects(e, j)
    \/ RetryWait
    \/ OnResponse
    \/ \E d \in Ticks : Tick(d)

Spec == Init /\ [][Next]_vars

\* =====================================================================
\* Properties
\* =====================================================================
Last(seq) == seq[Len(seq)]
Running == pc \in {"fetching", "sleeping"}
Ended == pc = "done"
Is5xx(h) == h.kind = "response" /\ h.status >= 500
Is2xx(h) == h.kind = "response" /\ h.status >= 200 /\ h.status <= 299
Is429(h) == h.kind = "response" /\ h.status = 429
IsOther(h) == h.kind = "response" /\ ~Is2xx(h) /\ ~Is429(h) /\ ~Is5xx(h)

\* C1: one request makes at most maxRetries+1 transport attempts and at most
\* maxRetries sleeps, whatever the outcomes; 429, 5xx and network failures
\* count on the one attempt counter; and a request that has used its last
\* attempt is no longer in the loop: it has a response or has ended, and a
\* request that has ended has a value or an error.
C1_AttemptBudget ==
    /\ fetches <= config.maxRetries + 1
    /\ Len(sleeps) + (IF pc = "sleeping" THEN 1 ELSE 0) <= config.maxRetries
    /\ attempt = fetches
    /\ Len(hist) = fetches
    /\ \A i \in 1 .. Len(sleeps) : sleeps[i].attempt = i
    /\ Running => attempt <= config.maxRetries
    /\ Ended => result.kind \in {"value", "error"}

\* a request with two retries that met a 429, a network failure and a 5xx
C1_Witness ==
    /\ Ended
    /\ config.maxRetries = 2
    /\ fetches = 3
    /\ Len(sleeps) = 2
    /\ Is429(hist[1]) /\ hist[2].kind = "network" /\ Is5xx(hist[3])

\* C2: a timed-out attempt is the last one: the request has ended with
\* TimeoutError, no sleep follows it and no attempt follows it.
C2_TimeoutTerminal ==
    \A i \in 1 .. Len(hist) :
        hist[i].kind = "timeout" =>
            /\ i = Len(hist)
            /\ Ended
            /\ result = Thrown("TimeoutError", 0)
            /\ Len(sleeps) = i - 1
            /\ pending = NoSleep

\* a timeout on the second attempt with a retry still left
C2_Witness ==
    /\ Ended
    /\ config.maxRetries = 2
    /\ Len(hist) = 2
    /\ Is5xx(hist[1])
    /\ hist[2].kind = "timeout"

\* C3 on the states of a request: a response that is not 2xx, not 429 and
\* below 500 is the last outcome of its request, at any attempt: no sleep and
\* no attempt follows it, the loop has returned it, and the request ends
\* with an error
C3_TerminalStates ==
    \A i \in 1 .. Len(hist) :
        IsOther(hist[i]) =>
            /\ i = Len(hist)
            /\ fetches = i
            /\ Len(sleeps) = i - 1
            /\ pending = NoSleep
            /\ pc \in {"responded", "done"}
            /\ pc = "responded" => response.status = hist[i].status
            /\ Ended => result.kind = "error"

\* C3 on the step the program takes after such a response (time passing
\* aside): the request ends with what createErrorFromResponse gives for that
\* very response
C3_ClassifiedStep ==
    (pc = "responded" /\ hist # << >> /\ IsOther(Last(hist)) /\ now' = now) =>
        /\ pc' = "done"
        /\ result' = createErrorFromResponse(response)
        /\ fetches' = fetches /\ sleeps' = sleeps

SourceBuild == build.MIN_API_VERSION = Version(0, 0, 0)

\* the request ended with the 2xx response as its value; a build whose
\* MIN_API_VERSION has been raised may instead end it with the rejection of
\* that response by the version check
Succeeded ==
    \/ result.kind = "value" /\ result.status >= 200 /\ result.status <= 299
    \/ ~SourceBuild /\ result = Thrown("UnsupportedAPIVersionError", 0)

\* the seconds a Retry-After header of digits declares
HeaderSeconds(header) ==
    CASE header = <<"2">> -> 2
      [] header = <<"6", "0">> -> 60

RetryAfterSleep(i) == [source |-> "retry-after", attempt |-> i]

\* C4: a 429 at attempt <= maxRetries puts the request to sleep for exactly
\* Retry-After x 1000 ms (60 s stays 60000 ms, above the backoff ceiling, and
\* no random draw enters) and the loop then makes another attempt; a 429 at
\* attempt > maxRetries is returned and ends the request with RateLimitError.
\* One 429 with Retry-After: 2 then a 2xx, with maxRetries >= 1, is two
\* attempts and one wait, of 2000 ms, and the request succeeds.  The code
\* ends the request of a returned 429 with the TypeError of
\* createErrorFromResponse when the body of the 429 is null.
C4_RateLimitRetry ==
    /\ \A i \in 1 .. Len(hist) :
          Is429(hist[i]) =>
              IF i <= config.maxRetries
              THEN \/ /\ i = Len(hist)
                      /\ pc = "sleeping"
                      /\ pending.source = "retry-after"
                      /\ pending.attempt = i
                      /\ Len(sleeps) = i - 1
                      /\ response.retryAfter \in {<<"2">>, <<"6", "0">>} =>
                            pending.ms = <<HeaderSeconds(response.retryAfter) * 1000>>
                   \/ /\ Len(sleeps) >= i
                      /\ sleeps[i] = RetryAfterSleep(i)
                      /\ Len(hist) > i \/ (pc = "fetching" /\ attempt = i)
              ELSE /\ i = Len(hist)
                   /\ Len(sleeps) = i - 1
                   /\ pending = NoSleep
                   /\ pc \in {"responded", "done"}
                   /\ Ended => result.tag = "RateLimitError" /\ result.status = 429
    /\ (Len(hist) = 2 /\ Is429(hist[1]) /\ Is2xx(hist[2])) =>
          /\ fetches = 2
          /\ sleeps = <<RetryAfterSleep(1)>>
          /\ pc \in {"responded", "done"}
          /\ Ended => Succeeded

\* the wait of 2000 ms after a 429 with Retry-After: 2
C4_Witness2000 ==
    /\ pc = "sleeping"
    /\ Is429(hist[1])
    /\ response.retryAfter = <<"2">>
    /\ pending = [ms |-> <<2000>>, source |-> "retry-after", attempt |-> 1]

\* a 429 then a 200: ended with the value after one rate-limit wait
C4_Witness ==
    /\ Ended
    /\ Len(hist) = 2 /\ Is429(hist[1]) /\ Is2xx(hist[2])
    /\ sleeps = <<RetryAfterSleep(1)>>
    /\ result.kind = "value"

BackoffSleep(i) == [source |-> "backoff", attempt |-> i]

\* the first n outcomes of the request are 5xx responses
Leading5xx(n) == n <= Len(hist) /\ \A i \in 1 .. n : Is5xx(hist[i])

\* C5: a 5xx at attempt <= maxRetries puts the request into a backoff sleep
\* (between the doubled base delay and 1.25 times it) after which the loop
\* makes another attempt. k 5xx responses and then a 2xx, k <= maxRetries,
\* are k+1 attempts and k waits, all backoff waits, and the request
\* succeeds; maxRetries+1 5xx responses are maxRetries backoff waits and the
\* request fails with the generic error carrying the last 5xx status.  The
\* code ends it with the TypeError of createErrorFromResponse when the body
\* of the last 5xx is null.
C5_ServerErrorRetry ==
    /\ \A i \in 1 .. Len(hist) :
          (Is5xx(hist[i]) /\ i <= config.maxRetries) =>
              \/ /\ i = Len(hist)
                 /\ pc = "sleeping"
                 /\ pending.source = "backoff"
                 /\ pending.attempt = i
                 /\ Len(sleeps) = i - 1
                 /\ pending.ms[1] >= Pow2(i - 1) * 1000
                 /\ 4 * pending.ms[1] < 5 * Pow2(i - 1) * 1000
              \/ /\ Len(sleeps) >= i
                 /\ sleeps[i] = BackoffSleep(i)
                 /\ Len(hist) > i \/ (pc = "fetching" /\ attempt = i)
    /\ \A k \in 0 .. config.maxRetries :
          (Len(hist) = k + 1 /\ Leading5xx(k) /\ Is2xx(hist[k + 1])) =>
              /\ fetches = k + 1
              /\ sleeps = [i \in 1 .. k |-> BackoffSleep(i)]
              /\ pc \in {"responded", "done"}
              /\ Ended => Succeeded
    /\ Leading5xx(config.maxRetries + 1) =>
          /\ Len(hist) = config.maxRetries + 1
          /\ fetches = config.maxRetries + 1
          /\ sleeps = [i \in 1 .. config.maxRetries |-> BackoffSleep(i)]
          /\ pending = NoSleep
          /\ pc \in {"responded", "done"}
          /\ Ended => result = Thrown("RefyneError", Last(hist).status)

\* two 5xx responses then a 200 with two retries: the value after two waits
C5_Witness ==
    /\ Ended
    /\ config.maxRetries = 2
    /\ Len(hist) = 3 /\ Leading5xx(2) /\ Is2xx(hist[3])
    /\ sleeps = <<BackoffSleep(1), BackoffSleep(2)>>
    /\ result.kind = "value"

\* 500, 500, 503 with two retries: the generic error with status 503
C5_WitnessExhausted ==
    /\ Ended
    /\ config.maxRetries = 2
    /\ Leading5xx(3)
    /\ hist[1].status = 500 /\ hist[3].status = 503
    /\ result = Thrown("RefyneError", 503)

\* C6 as the specification states it: every network failure at
\* attempt <= maxRetries is followed by a backoff sleep and another attempt,
\* and one at attempt > maxRetries ends the request with NetworkError.  The
\* code retries only a TypeError whose message holds one of five fragments.
C6_NetworkFailuresRetried ==
    \A i \in 1 .. Len(hist) :
        hist[i].kind = "network" =>
            IF i <= config.maxRetries
            THEN \/ /\ i = Len(hist)
                    /\ pc = "sleeping"
                    /\ pending.source = "backoff"
                 \/ /\ Len(sleeps) >= i
                    /\ sleeps[i] = BackoffSleep(i)
            ELSE /\ i = Len(hist)
                 /\ Ended
                 /\ result = Thrown("NetworkError", 0)

\* the entries of the store under a key that get serves at clock reading t:
\* not past expiresAt, or inside the stale-while-revalidate window
ServableEntries(key, t) ==
    { store[i].entry : i \in { n \in 1 .. Len(store) :
          /\ store[n].key = key
          /\ \/ t <= store[n].entry.expiresAt
             \/ \E w \in 1 .. 1 :
                   /\ store[n].entry.cacheControl.staleWhileRevalidate = <<w>>
                   /\ t < store[n].entry.expiresAt + w * 1000 } }

\* a step that starts a request
Starts == pc \in {"idle", "done"} /\ calls' = calls + 1

\* C7 on the step that starts a GET whose key has a servable entry, caching
\* enabled: the step hands the middleware a 200 response whose body is the
\* entry's value, without an attempt, a sleep or any retry state, and leaves
\* the store as it was
C7_HitStep ==
    (Starts /\ config.cacheEnabled /\ method' = "GET") =>
        \A entry \in ServableEntries(<<"GET", url', config.apiKeyHash>>, now) :
            /\ pc' = "responded"
            /\ response'.status = 200
            /\ JsonParse(response'.body) = <<entry.value>>
            /\ cacheOps' = <<"get-hit">>
            /\ fetches' = 0 /\ hist' = << >>
            /\ sleeps' = << >> /\ pending' = NoSleep
            /\ attempt' = 0 /\ lastError' = << >>
            /\ store' = store

\* C7 on the states of a request: one answered from the cache never makes an
\* attempt or sleeps and ends with a value, and a cached GET that makes an
\* attempt missed the cache first
C7_HitStates ==
    /\ (cacheOps # << >> /\ cacheOps[1] = "get-hit") =>
          /\ fetches = 0 /\ hist = << >>
          /\ sleeps = << >> /\ pending = NoSleep
          /\ attempt = 0 /\ lastError = << >>
          /\ pc \in {"responded", "done"}
          /\ Ended => result.kind = "value" /\ result.status = 200
    /\ (fetches > 0 /\ config.cacheEnabled /\ method = "GET") =>
          cacheOps[1] = "get-miss"

\* C7: a GET executed with caching enabled whose cache key has a servable
\* entry (fresh, or inside its stale-while-revalidate window) returns the
\* cached value with zero transport attempts, zero sleeps and no retry
\* state; the transport is contacted only on a miss.
C7_CacheHit == [][C7_HitStep]_vars /\ []C7_HitStates

\* a request answered with an expired entry inside its stale window
C7_Witness ==
    /\ Ended
    /\ cacheOps = <<"get-hit">>
    /\ fetches = 0
    /\ result.kind = "value"
    /\ \E i \in 1 .. Len(store) :
          /\ store[i].key = <<"GET", url, config.apiKeyHash>>
          /\ store[i].entry.expiresAt < now
          /\ JsonParse(result.body) = <<store[i].entry.value>>

\* the Cache-Control headers that carry max-age and no no-store
CacheableHeaders ==
    { << Part("max-age=", <<"1">>) >>,
      << Part("max-age=", <<"0">>), Part("stale-while-revalidate=", <<"1">>) >> }

TypedErrors ==
    {"RateLimitError", "ValidationError", "AuthenticationError", "ForbiddenError",
     "NotFoundError", "UnsupportedAPIVersionError", "TimeoutError", "NetworkError",
     "RefyneError"}

\* C9 as the specification states it: a request that has ended has exactly
\* one outcome, the value of a 2xx response or one error of the SDK's
\* classes, and a request that has not ended has no outcome yet.  The code
\* lets the TypeError of createErrorFromResponse on a body of null escape.
C9_OneTypedOutcome ==
    /\ Ended =>
          \/ result.kind = "value" /\ result.tag = ""
                /\ result.status >= 200 /\ result.status <= 299
          \/ result.kind = "error" /\ result.tag \in TypedErrors
    /\ ~Ended => result = NoResult

KeyNo(n) ==
    << CASE n = 1 -> "k1" [] n = 2 -> "k2" [] n = 3 -> "k3" [] OTHER -> "k4" >>

KeysInPlay ==
    LET present == { store[i].key : i \in 1 .. Len(store) }
        absent == { n \in 1 .. 4 : KeyNo(n) \notin present }
    IN  present \cup { << >> }
          \cup { KeyNo(n) : n \in { m \in absent : \A o \in absent : m <= o } }

CacheCapacities == {0, 1, 3}
Instants == {0, 59999, 60000, 60001}

MaxAge60 == << Part("max-age=", <<"6", "0">>) >>
MaxAge0Stale60 ==
    << Part("max-age=", <<"0">>), Part("stale-while-revalidate=", <<"6", "0">>) >>

\* an entry a caller builds itself with noStore set
NoStoreEntry(t) ==
    [value |-> "obj1", expiresAt |-> t + 60000,
     cacheControl |-> [NoDirectives EXCEPT !.noStore = TRUE, !.maxAge = <<60>>]]

\* the entries offered to set at clock reading t
EntriesAt(t) ==
    { createCacheEntry("obj1", MaxAge60, t)[1],
      createCacheEntry("obj2", MaxAge0Stale60, t)[1],
      NoStoreEntry(t) }

\* the calls of createCacheEntry behind them: value, max-age, result
Made(t) ==
    { [value |-> "obj1", seconds |-> 60,
       entry |-> createCacheEntry("obj1", MaxAge60, t)[1]],
      [value |-> "obj2", seconds |-> 0,
       entry |-> createCacheEntry("obj2", MaxAge0Stale60, t)[1]] }

\* what is tracked after set(key, entry): nothing when the set evicts or
\* overwrites the tracked key
TrackedAfterSet(key, entry) ==
    IF tracked = << >> \/ entry.cacheControl.noStore THEN tracked
    ELSE IF tracked[1].key = key THEN << >>
    ELSE IF EvictedKey(store, entry, maxEntries) = << tracked[1].key >> THEN << >>
    ELSE tracked

TrackedAfterDelete(key) ==
    IF tracked # << >> /\ tracked[1].key = key THEN << >> ELSE tracked

SideIdle ==
    /\ applied = NotApplied
    /\ requestInit = NoInit
    /\ received = << >>
    /\ tracked = << >>
    /\ credentials = << >>
    /\ served = << >>
    /\ inflight = << >>

RequestIdle ==
    /\ pc = "idle"
    /\ method = ""
    /\ url = ""
    /\ attempt = 0
    /\ lastError = << >>
    /\ pending = NoSleep
    /\ response = NoResponse
    /\ result = NoResult
    /\ fetches = 0
    /\ sleeps = << >>
    /\ hist = << >>
    /\ cacheOps = << >>

ClientFresh ==
    /\ apiVersionChecked = FALSE
    /\ versionEvals = 0
    /\ versionWarnings = 0
    /\ calls = 0

InitCache ==
    /\ config = [maxRetries |-> 0, cacheEnabled |-> TRUE, apiKeyHash |-> "k7f3"]
    /\ build = [MIN_API_VERSION |-> Version(0, 0, 0),
                MAX_KNOWN_API_VERSION |-> Version(0, 0, 0)]
    /\ maxEntries \in CacheCapacities
    /\ store = << >>
    /\ now = 0
    /\ cacheCall = NoCall
    /\ cacheCalls = 0
    /\ firstSets = NoSets
    /\ ClientFresh
    /\ RequestIdle
    /\ SideIdle

CacheFrame ==
    UNCHANGED <<clientVars, callVars, credentials, served, inflight, applied,
                requestInit, received>>

\* the call just made: the method, its arguments, the entry get returned
\* and the key set evicted
CacheCall(op, key, entry, returned, evicted) ==
    [op |-> op, key |-> key, entry |-> entry, returned |-> returned,
     evicted |-> evicted]

Spoiled == [pure |-> FALSE, keys |-> << >>]

\* cache.set(key, entry)
CacheSet(key, entry) ==
    /\ cacheCalls < MaxCacheCalls
    /\ cacheCalls' = cacheCalls + 1
    /\ store' = MemoryCacheSet(store, key, entry, maxEntries)
    /\ cacheCall' = CacheCall("set", key, <<entry>>, << >>,
                              EvictedKey(store, entry, maxEntries))
    /\ firstSets' =
          IF /\ firstSets.pure
             /\ ~entry.cacheControl.noStore
             /\ \A i \in 1 .. Len(firstSets.keys) : firstSets.keys[i] # key
          THEN [firstSets EXCEPT !.keys = Append(@, key)]
          ELSE Spoiled
    /\ tracked' \in { TrackedAfterSet(key, entry) }
          \cup { << [key |-> key, value |-> m.value, seconds |-> m.seconds,
                     at |-> now] >> : m \in { n \in Made(now) : n.entry = entry } }
    /\ now' = now
    /\ CacheFrame

\* cache.get(key)
CacheGet(key) ==
    /\ cacheCalls < MaxCacheCalls
    /\ cacheCalls' = cacheCalls + 1
    /\ LET got == MemoryCacheGet(store, key, now)
       IN  /\ store' = got.store
           /\ cacheCall' = CacheCall("get", key, << >>, got.entry, << >>)
    /\ firstSets' = Spoiled
    /\ tracked' = tracked
    /\ now' = now
    /\ CacheFrame

\* cache.delete(key)
CacheDelete(key) ==
    /\ cacheCalls < MaxCacheCalls
    /\ cacheCalls' = cacheCalls + 1
    /\ store' = MemoryCacheDelete(store, key)
    /\ cacheCall' = CacheCall("delete", key, << >>, << >>, << >>)
    /\ firstSets' = Spoiled
    /\ tracked' = TrackedAfterDelete(key)
    /\ now' = now
    /\ CacheFrame

\* cache.clear()
CacheClear ==
    /\ cacheCalls < MaxCacheCalls
    /\ cacheCalls' = cacheCalls + 1
    /\ store' = MemoryCacheClear(store)
    /\ cacheCall' = CacheCall("clear", << >>, << >>, << >>, << >>)
    /\ firstSets' = Spoiled
    /\ tracked' = << >>
    /\ now' = now
    /\ CacheFrame

\* the clock reaches a later instant
CacheTick(t) ==
    /\ t > now
    /\ now' = t
    /\ UNCHANGED <<store, cacheCall, cacheCalls, firstSets, tracked>>
    /\ CacheFrame

NextCache ==
    \/ \E key \in KeysInPlay, entry \in EntriesAt(now) : CacheSet(key, entry)
    \/ \E key \in KeysInPlay : CacheGet(key)
    \/ \E key \in KeysInPlay : CacheDelete(key)
    \/ CacheClear
    \/ \E t \in Instants : CacheTick(t)

SpecCache == InitCache /\ [][NextCache]_vars

\* the keys stored, in insertion order
StoredKeys == [i \in 1 .. Len(store) |-> store[i].key]

\* the calls so far are sets of storable entries under distinct keys into
\* the empty cache, one more of them than the capacity
OverfilledByOne == firstSets.pure /\ Len(firstSets.keys) = maxEntries + 1

\* C14 as the specification states it: capacity+1 sets under distinct keys
\* into an empty MemoryCache of capacity C leave exactly C entries, all but
\* the first-inserted key.  A cache of capacity 0 keeps the one entry, and
\* a first key "" is never evicted.
C14_FirstInsertedEvicted ==
    OverfilledByOne =>
        /\ Len(store) = maxEntries
        /\ StoredKeys = Tail(firstSets.keys)

\* the same where the eviction test of set works: a capacity of at least 1
\* and no empty key
C14_NonEmptyKeys ==
    /\ OverfilledByOne
    /\ maxEntries >= 1
    /\ \A i \in 1 .. Len(firstSets.keys) : firstSets.keys[i] # << >>
    => /\ Len(store) = maxEntries
       /\ StoredKeys = Tail(firstSets.keys)

C14_FourIntoThree ==
    /\ maxEntries = 3
    /\ firstSets.pure
    /\ firstSets.keys = <<KeyNo(1), KeyNo(2), KeyNo(3), KeyNo(4)>>
    /\ StoredKeys = <<KeyNo(2), KeyNo(3), KeyNo(4)>>

\* C15 as the specification states it: whatever the calls, whatever the
\* keys and for every capacity C >= 0, the cache never holds more than C
\* entries.  set evicts only when the oldest key is truthy and only one
\* entry per call, so capacity 0 holds one entry and a cache whose oldest
\* key is "" grows with every new key.
C15_SizeBounded == Len(store) <= maxEntries

\* the step is a call of the named method
Called(op) == cacheCalls' = cacheCalls + 1 /\ cacheCall'.op = op

\* the entries stored under key: one or none
EntriesUnder(st, key) ==
    { st[i].entry : i \in { j \in 1 .. Len(st) : st[j].key = key } }

Without(st, key) == SelectSeq(st, LAMBDA x : x.key # key)

\* the stale window of an entry is open at t
StaleWindowOpen(e, t) ==
    /\ e.cacheControl.staleWhileRevalidate # NaN
    /\ t < e.expiresAt + e.cacheControl.staleWhileRevalidate[1] * 1000

C16_GetStep ==
    Called("get") =>
        LET key == cacheCall'.key
            returned == cacheCall'.returned
        IN  /\ EntriesUnder(store, key) = { } =>
                  returned = << >> /\ store' = store
            /\ \A e \in EntriesUnder(store, key) :
                  /\ e.expiresAt >= now =>
                        returned = <<e>> /\ store' = store
                  /\ e.expiresAt < now /\ StaleWindowOpen(e, now) =>
                        returned = <<e>> /\ store' = store
                  /\ e.expiresAt < now /\ ~StaleWindowOpen(e, now) =>
                        returned = << >> /\ store' = Without(store, key)
                  /\ e.cacheControl = parseCacheControl(MaxAge0Stale60) =>
                        (returned = <<e>> <=> now < e.expiresAt + 60000)

\* C16: get returns a present entry whose expiresAt >= now; an entry with
\* expiresAt < now is returned, and kept, while its stale-while-revalidate
\* window is open (now < expiresAt + staleWhileRevalidate * 1000), and is
\* otherwise removed and reported as a miss; an entry with max-age=0,
\* stale-while-revalidate=60 is returned exactly until 60 s past its expiry.
C16_GetFreshOrStale == [][C16_GetStep]_vars

\* a get has served an expired entry inside its stale window
C16_Witness ==
    /\ cacheCall.op = "get"
    /\ cacheCall.returned # << >>
    /\ cacheCall.returned[1].expiresAt < now
    /\ cacheCall.returned[1].cacheControl = parseCacheControl(MaxAge0Stale60)

\* a get at 60 s past the expiry has removed the entry and missed
C16_WitnessMiss ==
    /\ cacheCall.op = "get"
    /\ cacheCall.returned = << >>
    /\ now = 60000
    /\ firstSets = Spoiled
    /\ cacheCalls = 2
    /\ store = << >>

\* the step is get(k) of the tracked key, at most N seconds after the entry
\* was made
TrackedGet ==
    /\ Called("get")
    /\ tracked # << >>
    /\ cacheCall'.key = tracked[1].key
    /\ now <= tracked[1].at + tracked[1].seconds * 1000

C17_RoundTripStep ==
    TrackedGet =>
        /\ cacheCall'.returned # << >>
        /\ cacheCall'.returned[1].value = tracked[1].value

\* C17: an entry made by createCacheEntry(v, "max-age=N") and set under k
\* is returned, with the value v, by every get(k) within N seconds, as long
\* as k was not deleted, cleared, evicted or set again.
C17_RoundTrip == [][C17_RoundTripStep]_vars

\* such a get has returned v, 59.999 s or more after the entry was made
C17_Witness ==
    /\ cacheCall.op = "get"
    /\ tracked # << >>
    /\ cacheCall.key = tracked[1].key
    /\ now >= tracked[1].at + 59999
    /\ now <= tracked[1].at + tracked[1].seconds * 1000
    /\ cacheCall.returned # << >>
    /\ cacheCall.returned[1].value = tracked[1].value

C18_DeleteStep ==
    Called("delete") =>
        LET key == cacheCall'.key
        IN  /\ store' = Without(store, key)
            /\ EntriesUnder(store, key) = { } => store' = store
            /\ EntriesUnder(store', key) = { }
            /\ \A i \in 1 .. Len(store) :
                  store[i].key # key =>
                      EntriesUnder(store', store[i].key) = { store[i].entry }

\* C18: delete always completes; on a present key it removes exactly that
\* entry and leaves every other entry as it was, on an absent key it leaves
\* the store unchanged, and the key is absent afterwards, so a second delete
\* changes nothing.
C18_DeleteExact == [][C18_DeleteStep]_vars

\* k1 and k2 were set and delete(k1) has left exactly k2
C18_Witness ==
    /\ maxEntries = 3
    /\ cacheCalls = 3
    /\ cacheCall.op = "delete"
    /\ cacheCall.key = KeyNo(1)
    /\ StoredKeys = << KeyNo(2) >>

C19_NoStoreStep ==
    Called("set") /\ cacheCall'.entry[1].cacheControl.noStore =>
        /\ store' = store
        /\ cacheCall'.evicted = << >>

\* C19: set with an entry whose directives have noStore leaves the store
\* as it was: nothing is inserted, overwritten or evicted, also when the
\* store is at capacity.
C19_NoStoreIsNoOp == [][C19_NoStoreStep]_vars

\* a full store of non-empty keys after set under a stored key with noStore
C19_Witness ==
    /\ cacheCall.op = "set"
    /\ cacheCall.entry[1].cacheControl.noStore
    /\ maxEntries >= 1
    /\ Len(store) = maxEntries
    /\ store[1].key # << >>
    /\ EntriesUnder(store, cacheCall.key) # { }

\* the keys stored before and after the step keep their order
OrderKept ==
    \A i \in 1 .. Len(store), j \in 1 .. Len(store) :
        i < j =>
            \A m \in 1 .. Len(store'), n \in 1 .. Len(store') :
                store'[m].key = store[i].key /\ store'[n].key = store[j].key
                    => m < n

\* the step is a get that hits, or a set of a storable entry under a key
\* that is present
UsesPresentKey ==
    \/ Called("get") /\ cacheCall'.returned # << >>
    \/ /\ Called("set")
       /\ ~cacheCall'.entry[1].cacheControl.noStore
       /\ EntriesUnder(store, cacheCall'.key) # { }

C29_OrderStep ==
    /\ UsesPresentKey =>
          /\ OrderKept
          /\ EntriesUnder(store', cacheCall'.key) # { }
    /\ Called("set") /\ cacheCall'.evicted # << >> =>
          cacheCall'.evicted = << store[1].key >>

\* C29 as the specification states it: a get that hits and a set that
\* overwrites a present key leave that key where it is in the eviction
\* order, and an eviction removes the earliest-inserted key.  The code
\* evicts on every set at capacity, an overwrite included: overwriting the
\* oldest key of a full store removes it and inserts it again as the newest.
C29_InsertionOrder == [][C29_OrderStep]_vars

\* the same but for the overwrite of the oldest key of a store at capacity
C29_ExceptOldestStep ==
    ~( /\ Called("set")
       /\ Len(store) >= maxEntries
       /\ store # << >>
       /\ store[1].key = cacheCall'.key )
    => C29_OrderStep

C29_ExceptOldest == [][C29_ExceptOldestStep]_vars

\* k1, k2, k3 set into a cache of capacity 3 and k1 set again: k1 is last
C29_OldestMovedLast ==
    /\ maxEntries = 3
    /\ cacheCalls = 4
    /\ cacheCall.op = "set" /\ cacheCall.key = KeyNo(1)
    /\ StoredKeys = << KeyNo(2), KeyNo(3), KeyNo(1) >>

\* the step sets a storable entry under a key that is present while the
\* store holds exactly maxEntries entries
OverwritesAtCapacity ==
    /\ Called("set")
    /\ ~cacheCall'.entry[1].cacheControl.noStore
    /\ EntriesUnder(store, cacheCall'.key) # { }
    /\ Len(store) = maxEntries

C36_OverwriteStep ==
    OverwritesAtCapacity =>
        /\ cacheCall'.evicted = << store[1].key >>
        /\ EntriesUnder(store', cacheCall'.key) = { cacheCall'.entry[1] }
        /\ store[1].key # cacheCall'.key =>
              /\ Len(store') = maxEntries - 1
              /\ EntriesUnder(store', store[1].key) = { }
        /\ store[1].key = cacheCall'.key =>
              /\ Len(store') = maxEntries
              /\ store'[Len(store')].key = cacheCall'.key

\* C36 as it is stated: a set of a storable entry under a key that
\* is present, in a store that holds maxEntries entries, evicts the
\* oldest-inserted entry before it writes: when that entry belongs to
\* another key the store ends with maxEntries - 1 entries, and when it is
\* the key itself the key ends as the newest entry.  The code does not
\* evict an oldest entry whose key is the empty string.
C36_OverwriteEvicts == [][C36_OverwriteStep]_vars

\* the same but for a store whose oldest key is the empty string
C36_TruthyOldestStep ==
    (OverwritesAtCapacity /\ store[1].key # << >>) => C36_OverwriteStep

C36_TruthyOldest == [][C36_TruthyOldestStep]_vars

\* with the empty string as the oldest key the overwrite evicts nothing
C36_EmptyOldestStep ==
    (OverwritesAtCapacity /\ store[1].key = << >>) =>
        /\ cacheCall'.evicted = << >>
        /\ Len(store') = maxEntries
        /\ store'[1].key = << >>

C36_EmptyOldest == [][C36_EmptyOldestStep]_vars

\* '', k1, k2 set into a cache of capacity 3 and k1 set again: three
\* entries are left, '' the oldest of them
C36_EmptyOldestKept ==
    /\ maxEntries = 3
    /\ cacheCalls = 4
    /\ cacheCall.op = "set" /\ cacheCall.key = KeyNo(1)
    /\ cacheCall.evicted = << >>
    /\ StoredKeys = << << >>, KeyNo(1), KeyNo(2) >>

\* k1, k2, k3 set into a cache of capacity 3 and k2 set again: k1 is
\* evicted and two entries are left
C36_OtherOldestEvicted ==
    /\ maxEntries = 3
    /\ cacheCalls = 4
    /\ cacheCall.op = "set" /\ cacheCall.key = KeyNo(2)
    /\ cacheCall.evicted = << KeyNo(1) >>
    /\ StoredKeys = << KeyNo(2), KeyNo(3) >>

\* the entry is expired at t and its stale window, if it has one, is closed
ExpiredAt(e, t) == e.expiresAt < t /\ ~StaleWindowOpen(e, t)

\* the keys of the store that the step removes
RemovedKeys ==
    { store[i].key : i \in { j \in 1 .. Len(store) :
                                EntriesUnder(store', store[j].key) = { } } }

\* expiry removes an entry only in the get that looks its key up: the
\* passing of time removes nothing, a get removes at most the key it was
\* given and only an expired one, and a set removes at most the oldest key
C37_LazyStep ==
    /\ cacheCalls' = cacheCalls => store' = store
    /\ Called("get") =>
          /\ RemovedKeys \subseteq { cacheCall'.key }
          /\ \A e \in EntriesUnder(store, cacheCall'.key) :
                (RemovedKeys # { }) <=> ExpiredAt(e, now)
    /\ Called("set") => (RemovedKeys = { } \/ RemovedKeys = { store[1].key })

\* a set of a storable entry into a store at capacity evicts the oldest
\* entry, expired or fresh, and no other
C37_EvictsOldestStep ==
    (/\ Called("set")
     /\ ~cacheCall'.entry[1].cacheControl.noStore
     /\ store # << >>
     /\ Len(store) >= maxEntries) =>
        /\ cacheCall'.evicted = << store[1].key >>
        /\ store' = MapSet(MapDelete(store, store[1].key), cacheCall'.key,
                           cacheCall'.entry[1])

\* C37 as the specification states it: expired entries leave the store only
\* lazily, in the get that looks their key up, so an expired entry that is
\* not looked up stays and counts toward the capacity, and a set at
\* capacity evicts the oldest-inserted entry even when it is fresh and an
\* expired entry sits elsewhere.  The code evicts nothing when the oldest
\* key is the empty string.
C37_LazyExpiry == [][C37_LazyStep /\ C37_EvictsOldestStep]_vars

\* the lazy removal alone
C37_LazyOnly == [][C37_LazyStep]_vars

\* the eviction but for a store whose oldest key is the empty string
C37_TruthyOldestStep ==
    (store = << >> \/ store[1].key # << >>) => C37_EvictsOldestStep

C37_TruthyOldest == [][C37_LazyStep /\ C37_TruthyOldestStep]_vars

\* k1 (max-age 60), k2 (max-age 0) and k3 set at 0 into a cache of capacity
\* 3, and k4 set at 60000: the fresh k1 is evicted, the expired k2 is kept
C37_FreshEvictedExpiredKept ==
    /\ maxEntries = 3
    /\ now = 60000
    /\ cacheCalls = 4
    /\ cacheCall.op = "set" /\ cacheCall.key = KeyNo(4)
    /\ cacheCall.evicted = << KeyNo(1) >>
    /\ StoredKeys = << KeyNo(2), KeyNo(3), KeyNo(4) >>
    /\ ExpiredAt(store[1].entry, now)

\* '' (fresh) and two more keys, one of them expired, in a cache of
\* capacity 3, and a fourth key set: nothing is evicted, four are stored
C37_EmptyOldestNotEvicted ==
    /\ maxEntries = 3
    /\ cacheCalls = 4
    /\ cacheCall.op = "set"
    /\ cacheCall.evicted = << >>
    /\ Len(store) = 4
    /\ store[1].key = << >>
    /\ ~ExpiredAt(store[1].entry, now)
    /\ ExpiredAt(store[2].entry, now)

\* =====================================================================
\* The middleware on a first successful response
\* =====================================================================
\* The onResponse middleware of a fresh client on its first 2xx response,
\* over the version headers a server may send and the constants a build may
\* hold.
VersionNumbers == 0 .. 2

ServerVersions ==
    { Version(a, b, c) : a \in VersionNumbers, b \in VersionNumbers, c \in VersionNumbers }
    \cup { [parts |-> <<1, 1, 0>>, pre |-> <<"b", "e", "t", "a">>],
           [parts |-> <<1, 1>>, pre |-> << >>],
           [parts |-> <<-1, 1, 0>>, pre |-> << >>] }

BuildVersions ==
    { [MIN_API_VERSION |-> Version(a, b, c), MAX_KNOWN_API_VERSION |-> Version(m, 0, 0)] :
          a \in 0 .. 1, b \in 0 .. 1, c \in 0 .. 1, m \in 1 .. 1 }
    \cup { [MIN_API_VERSION |-> Version(0, 0, 0), MAX_KNOWN_API_VERSION |-> Version(0, 0, 0)] }

\* a request whose one attempt was answered with r, before the middleware
AnsweredWith(r) ==
    /\ pc = "responded"
    /\ method = "GET"
    /\ url = "/jobs"
    /\ attempt = 1
    /\ lastError = << >>
    /\ pending = NoSleep
    /\ response = r
    /\ result = NoResult
    /\ fetches = 1
    /\ sleeps = << >>
    /\ hist = << [kind |-> "response", status |-> r.status] >>
    /\ cacheOps = << >>

CacheIdle ==
    /\ maxEntries = 1
    /\ store = << >>
    /\ now = 0
    /\ cacheCall = NoCall
    /\ cacheCalls = 0
    /\ firstSets = NoSets

InitVersion ==
    /\ config = [maxRetries |-> 0, cacheEnabled |-> FALSE, apiKeyHash |-> "k7f3"]
    /\ build \in BuildVersions
    /\ apiVersionChecked = FALSE
    /\ versionEvals = 0
    /\ versionWarnings = 0
    /\ calls = 1
    /\ \E v \in ServerVersions : AnsweredWith(Resp(200, << >>, << >>, <<v>>, "{id:1}"))
    /\ CacheIdle
    /\ SideIdle

NextVersion == OnResponse

SpecVersion == InitVersion /\ [][NextVersion]_vars

\* the (major, minor, patch) a version string stands for: its three numeric
\* fields, and 0.0.0 when it does not have that form
Triple(version) ==
    IF Len(version.parts) = 3 /\ \A i \in 1 .. 3 : version.parts[i] >= 0
    THEN version.parts
    ELSE <<0, 0, 0>>

\* the lexicographic order of triples
LexLess(a, b) ==
    \/ a[1] < b[1]
    \/ a[1] = b[1] /\ a[2] < b[2]
    \/ a[1] = b[1] /\ a[2] = b[2] /\ a[3] < b[3]

\* C11 on the step of the middleware that checks the version of a response
C11_CheckStep ==
    (pc = "responded" /\ pc' = "done" /\ ~apiVersionChecked /\ Ok(response)
        /\ response.apiVersion # << >>) =>
        LET server == Triple(response.apiVersion[1])
            minSupported == Triple(build.MIN_API_VERSION)
            maxKnown == Triple(build.MAX_KNOWN_API_VERSION)
        IN  /\ versionEvals' = versionEvals + 1
            /\ (result' = Thrown("UnsupportedAPIVersionError", 0))
                  <=> LexLess(server, minSupported)
            /\ server = minSupported => result'.kind = "value"
            /\ LexLess(server, minSupported) => versionWarnings' = versionWarnings
            /\ ~LexLess(server, minSupported) =>
                  /\ result' = Value(response)
                  /\ versionWarnings' =
                        versionWarnings + (IF server[1] > maxKnown[1] THEN 1 ELSE 0)

C11_WitnessWarned ==
    /\ Ended
    /\ build.MAX_KNOWN_API_VERSION = Version(1, 0, 0)
    /\ result.kind = "value"
    /\ versionWarnings = 1

\* =====================================================================
\* Two requests of one client in flight together
\* =====================================================================
\* Each request awaits its fetch and then runs the onResponse middleware.
\* The middleware is an async function; from its start to its first await
\* (the version check and the assignment of apiVersionChecked lie before
\* it) it runs without interruption, so it is one step here.
RequestIds == 1 .. 2

RaceResponses ==
    { Resp(200, << >>, << >>, v, "{id:1}") : v \in VersionHeaders }
    \cup { Resp(503, << >>, << >>, << >>, "{\"error\":\"x\"}") }

Awaiting == [pc |-> "fetching", response |-> NoResponse, result |-> NoResult]

InitRace ==
    /\ config = [maxRetries |-> 0, cacheEnabled |-> FALSE, apiKeyHash |-> "k7f3"]
    /\ build \in Builds
    /\ ClientFresh
    /\ RequestIdle
    /\ CacheIdle
    /\ tracked = << >>
    /\ applied = NotApplied
    /\ requestInit = NoInit
    /\ received = << >>
    /\ credentials = << >>
    /\ served = << >>
    /\ inflight = [i \in RequestIds |-> Awaiting]

RaceFrame ==
    UNCHANGED <<config, build, maxEntries, calls, store, now, callVars,
                cacheCall, cacheCalls, firstSets, tracked, credentials, served,
                applied, requestInit, received>>

\* the fetch of request i resolves with r
RaceReceive(i, r) ==
    /\ inflight[i].pc = "fetching"
    /\ inflight' = [inflight EXCEPT ![i] = [pc |-> "responded", response |-> r,
                                           result |-> NoResult]]
    /\ UNCHANGED <<apiVersionChecked, versionEvals, versionWarnings>>
    /\ RaceFrame

\* the onResponse middleware on the response of request i
RaceOnResponse(i) ==
    /\ inflight[i].pc = "responded"
    /\ LET r == inflight[i].response
           due == VersionCheckDue(apiVersionChecked, r)
           evaluated == due /\ r.apiVersion # << >>
           verdict == IF evaluated
                      THEN checkAPIVersionCompatibility(r.apiVersion[1],
                               build.MIN_API_VERSION, build.MAX_KNOWN_API_VERSION)
                      ELSE "skip"
           outcome == IF verdict = "throw"
                      THEN Thrown("UnsupportedAPIVersionError", 0)
                      ELSE IF ~Ok(r) THEN createErrorFromResponse(r)
                      ELSE Value(r)
       IN  /\ versionEvals' = IF evaluated THEN versionEvals + 1 ELSE versionEvals
           /\ versionWarnings' = IF verdict = "warn" THEN versionWarnings + 1
                                 ELSE versionWarnings
           /\ apiVersionChecked' = CheckedAfter(apiVersionChecked, due, verdict)
           /\ inflight' = [inflight EXCEPT ![i] = [pc |-> "done", response |-> r,
                                                  result |-> outcome]]
    /\ RaceFrame

NextRace ==
    \/ \E i \in RequestIds, r \in RaceResponses : RaceReceive(i, r)
    \/ \E i \in RequestIds : RaceOnResponse(i)

SpecRace == InitRace /\ [][NextRace]_vars

\* both requests have ended, each on a 2xx response that carries a version
BothEndedVersioned ==
    \A i \in RequestIds :
        /\ inflight[i].pc = "done"
        /\ Ok(inflight[i].response)
        /\ inflight[i].response.apiVersion # << >>

MaxCredentialLen == 2

\* a string as the sequence of its UTF-16 code units: "A", "B", "a"
CharCodes == {65, 66, 97}

RECURSIVE StringsUpTo(_)
StringsUpTo(n) ==
    IF n = 0 THEN { << >> }
    ELSE LET shorter == StringsUpTo(n - 1)
         IN  shorter \cup { Append(s, c) : s \in shorter, c \in CharCodes }

CredentialStrings == StringsUpTo(MaxCredentialLen) \ { << >> }

\* a 32-bit integer as its two 16-bit halves, two's complement
Int32Zero == [hi |-> 0, lo |-> 0]

\* hash = ((hash << 5) - hash) + char; hash = hash & hash:
\* 31 * hash + char, kept to 32 bits
HashStep(h, char) ==
    LET low == 31 * h.lo + char
    IN  [hi |-> (31 * h.hi + low \div 65536) % 65536, lo |-> low % 65536]

RECURSIVE HashLoop(_, _, _)
HashLoop(str, i, h) ==
    IF i > Len(str) THEN h ELSE HashLoop(str, i + 1, HashStep(h, str[i]))

Digit36(d) == SubSeq("0123456789abcdefghijklmnopqrstuvwxyz", d + 1, d + 1)

\* Number.prototype.toString(36) of a non-negative integer
RECURSIVE ToString36(_)
ToString36(n) ==
    IF n < 36 THEN Digit36(n) ELSE ToString36(n \div 36) \o Digit36(n % 36)

\* Math.abs(hash).toString(36); the sign bit set means a negative hash,
\* and -2^31 has the absolute value 2^31
hashString(str) ==
    LET h == HashLoop(str, 1, Int32Zero)
    IN  IF h.hi < 32768 THEN ToString36(h.hi * 65536 + h.lo)
        ELSE IF h.hi = 32768 /\ h.lo = 0 THEN "zik0zk"
        ELSE ToString36((65535 - h.hi) * 65536 + (65536 - h.lo))

CallerIds == 1 .. 2

\* what the server answers caller i: a body of that caller's own
OwnBody(i) == IF i = 1 THEN "{id:1}" ELSE "{id:2}"
OwnValue(i) == JsonParse(OwnBody(i))[1]

\* the cache key of a GET of u by caller i
CallerKey(i, u) == generateCacheKey("GET", u, hashString(credentials[i]))

NotServed == << >>

InitShared ==
    /\ config = [maxRetries |-> 0, cacheEnabled |-> TRUE, apiKeyHash |-> "k7f3"]
    /\ build = [MIN_API_VERSION |-> Version(0, 0, 0),
                MAX_KNOWN_API_VERSION |-> Version(0, 0, 0)]
    /\ ClientFresh
    /\ RequestIdle
    /\ maxEntries = 100
    /\ store = << >>
    /\ now = 0
    /\ cacheCall = NoCall
    /\ cacheCalls = 0
    /\ firstSets = NoSets
    /\ tracked = << >>
    /\ applied = NotApplied
    /\ requestInit = NoInit
    /\ received = << >>
    /\ credentials \in { c \in [CallerIds -> CredentialStrings] : c[1] # c[2] }
    /\ served = NotServed
    /\ inflight = << >>

\* fetchWithRetry of caller i for a GET of u, cache enabled: a hit returns
\* the cached value; a miss fetches, receives 200 with Cache-Control:
\* max-age=60 and the caller's own body, and stores it under the caller's key
SharedGet(i, u) ==
    /\ LET cacheKey == CallerKey(i, u)
           got == MemoryCacheGet(store, cacheKey, now)
           fetched == createCacheEntry(OwnValue(i), MaxAge60, now)
       IN  IF got.entry # << >>
           THEN /\ store' = got.store
                /\ served' = << [caller |-> i, url |-> u, fromCache |-> TRUE,
                                 value |-> got.entry[1].value] >>
           ELSE /\ store' = MemoryCacheSet(got.store, cacheKey, fetched[1],
                                           maxEntries)
                /\ served' = << [caller |-> i, url |-> u, fromCache |-> FALSE,
                                 value |-> OwnValue(i)] >>
    /\ UNCHANGED <<clientVars, callVars, now, cacheCall, cacheCalls, firstSets,
                   tracked, credentials, inflight, applied, requestInit, received>>

NextShared == \E i \in CallerIds, u \in Urls : SharedGet(i, u)

SpecShared == InitShared /\ [][NextShared]_vars

\* a caller served from the cache is served a value cached from its own
\* response
ServedOwnValue ==
    served # NotServed /\ served[1].fromCache
        => served[1].value = OwnValue(served[1].caller)

\* C13 as the specification states it: the two callers' keys for the same
\* method and URL differ, and a GET by one caller is never served a value
\* cached from the other caller's response.  hashString is a 32-bit hash, two
\* credentials can share it, and then the second caller is served the first
\* caller's value.
C13_CallersIsolated ==
    /\ \A u \in Urls : CallerKey(1, u) # CallerKey(2, u)
    /\ ServedOwnValue

\* =====================================================================
\* createErrorFromResponse over the responses a server may send
\* =====================================================================
ErrorStatuses == {400, 401, 403, 404, 409, 418, 429, 500, 502, 503}

ErrorBodies == {"{\"error\":\"x\"}", "<html>", "", "null"}

ErrorResponses ==
    { Resp(st, ra, << >>, << >>, b) :
          st \in ErrorStatuses, ra \in RetryAfterHeaders, b \in ErrorBodies }

InitErrors ==
    /\ config = [maxRetries |-> 0, cacheEnabled |-> FALSE, apiKeyHash |-> "k7f3"]
    /\ build = [MIN_API_VERSION |-> Version(0, 0, 0),
                MAX_KNOWN_API_VERSION |-> Version(0, 0, 0)]
    /\ ClientFresh
    /\ CacheIdle
    /\ SideIdle
    /\ pc = "responded"
    /\ method = "GET"
    /\ url \in Urls
    /\ attempt = 0
    /\ lastError = << >>
    /\ pending = NoSleep
    /\ response \in ErrorResponses
    /\ result = NoResult
    /\ fetches = 1
    /\ sleeps = << >>
    /\ hist = << >>
    /\ cacheOps = << >>

\* await createErrorFromResponse(response)
ErrorFromResponse ==
    /\ pc = "responded"
    /\ pc' = "done"
    /\ result' = createErrorFromResponse(response)
    /\ UNCHANGED <<clientVars, store, now, method, url, attempt, lastError,
                   pending, response, fetches, sleeps, hist, cacheOps, sideVars>>

NextErrors == ErrorFromResponse

SpecErrors == InitErrors /\ [][NextErrors]_vars

\* the class the specification assigns to a status
ClassOfStatus(st) ==
    CASE st = 400 -> "ValidationError"
      [] st = 401 -> "AuthenticationError"
      [] st = 403 -> "ForbiddenError"
      [] st = 404 -> "NotFoundError"
      [] st = 429 -> "RateLimitError"
      [] OTHER -> "RefyneError"

Mapped ==
    /\ result.kind = "error"
    /\ result.tag = ClassOfStatus(response.status)
    /\ result.status = response.status

\* C20 as the specification states it: createErrorFromResponse returns the
\* error class of the status (400, 401, 403, 404, 429, every other status
\* the generic one) with the status of the response, and never throws,
\* whatever the body.  A body that is the JSON text null makes the function
\* throw a TypeError.
C20_StatusMapping == pc = "done" => Mapped

\* the same for every body that is not the JSON text null
C20_OtherBodies ==
    pc = "done" /\ JsonParse(response.body) # <<"null">> => Mapped

\* a header value that is a decimal integer: digits and nothing else
ValidInteger(header) ==
    /\ header # << >>
    /\ \A i \in 1 .. Len(header) : header[i] \in Digits

\* the seconds the specification assigns to a Retry-After header, with the
\* default given for a header that is missing or no valid integer
SecondsOr(header, default) ==
    IF ValidInteger(header) THEN DecimalValue(header, 0) ELSE default

RateLimited == pc = "done" /\ response.status = 429

\* C21 as the specification states it: the RateLimited error of a 429
\* carries the Retry-After header parsed as integer seconds, and 60 when the
\* header is missing or is no valid integer.  The code defaults only a
\* missing or empty header; parseInt of any other text that does not start
\* with an integer is NaN.
C21_RetryAfterSeconds ==
    RateLimited =>
        /\ result.tag = "RateLimitError"
        /\ result.retryAfter = Num(SecondsOr(response.retryAfter, 60))

\* the same for a header that is missing or a valid integer, on a body that
\* is not the JSON text null
C21_MissingOrValid ==
    /\ RateLimited
    /\ response.retryAfter = << >> \/ ValidInteger(response.retryAfter)
    /\ JsonParse(response.body) # <<"null">>
    => /\ result.tag = "RateLimitError"
       /\ result.retryAfter = Num(SecondsOr(response.retryAfter, 60))

\* an invalid header on an ordinary body gives NaN
C21_InvalidHeaderNaN ==
    /\ RateLimited
    /\ response.retryAfter = <<"W", "e", "d">>
    /\ result.tag = "RateLimitError"
    /\ result.retryAfter = NaN

\* the request sleeps after a 429 it retries
RateLimitWait == pc = "sleeping" /\ pending.source = "retry-after"

\* C22 as the specification states it: the wait of a retried 429 whose
\* Retry-After header is missing or is no valid integer is 1000 ms.  The
\* code defaults only a missing or empty header; for any other text that
\* does not start with an integer the delay is NaN * 1000.
C22_DefaultWait ==
    RateLimitWait /\ ~ValidInteger(response.retryAfter) =>
        pending.ms = Num(1000)

\* the same for the missing header alone
C22_MissingHeader ==
    RateLimitWait /\ response.retryAfter = << >> => pending.ms = Num(1000)

\* the wait after a 429 without the header
C22_WaitedOneSecond ==
    /\ RateLimitWait
    /\ response.retryAfter = << >>
    /\ pending.ms = Num(1000)

\* the wait after a 429 with Retry-After: Wed
C22_WaitedNaN ==
    /\ RateLimitWait
    /\ response.retryAfter = <<"W", "e", "d">>
    /\ pending.ms = NaN

\* =====================================================================
\* The exported functions called on their own
\* =====================================================================
\* everything but the function application at rest
PureIdle ==
    /\ config = [maxRetries |-> 0, cacheEnabled |-> FALSE, apiKeyHash |-> "k7f3"]
    /\ build = [MIN_API_VERSION |-> Version(0, 0, 0),
                MAX_KNOWN_API_VERSION |-> Version(0, 0, 0)]
    /\ ClientFresh
    /\ CacheIdle
    /\ RequestIdle
    /\ tracked = << >>
    /\ credentials = << >>
    /\ served = << >>
    /\ inflight = << >>
    /\ requestInit = NoInit
    /\ received = << >>

PureFrame ==
    UNCHANGED <<clientVars, store, now, callVars, cacheCall, cacheCalls,
                firstSets, tracked, credentials, served, inflight, requestInit, received>>

\* ------------------------------------------ calculateBackoffWithJitter
MaxBackoffAttempt == 8

BaseDelays == {1, 300, 1000}
MaxDelays == {10, 1000, 30000}
JitterDraws == {0, 1, 50, 99}

InitBackoff ==
    /\ PureIdle
    /\ applied \in { << [attempt |-> 0, baseMs |-> b, maxMs |-> m, value |-> NaN] >> :
                        b \in BaseDelays, m \in MaxDelays }

\* calculateBackoffWithJitter(attempt, baseMs, maxMs) for the next attempt,
\* with Math.random() giving j / 100
BackoffNext(j) ==
    /\ applied[1].attempt < MaxBackoffAttempt
    /\ applied' = << [applied[1] EXCEPT
                        !.attempt = @ + 1,
                        !.value = Num(calculateBackoffWithJitter(
                                        applied[1].attempt + 1, applied[1].baseMs,
                                        applied[1].maxMs, j))] >>
    /\ PureFrame

NextBackoff == \E j \in JitterDraws : BackoffNext(j)

SpecBackoff == InitBackoff /\ [][NextBackoff]_vars

\* min(2^(attempt-1) * baseMs, capMs)
NonJittered(n, baseMs, capMs) ==
    LET power == Pow2(n - 1) * baseMs
    IN  IF power < capMs THEN power ELSE capMs

C23_DelayBounds ==
    applied[1].attempt >= 1 =>
        /\ applied[1].value[1] >=
               NonJittered(applied[1].attempt, applied[1].baseMs, applied[1].maxMs)
        /\ 4 * applied[1].value[1] <= 5 * applied[1].maxMs

C23_NextAttemptStep ==
    applied[1].attempt >= 1 /\ applied'[1].attempt = applied[1].attempt + 1 =>
        NonJittered(applied'[1].attempt, applied[1].baseMs, applied[1].maxMs)
            >= NonJittered(applied[1].attempt, applied[1].baseMs, applied[1].maxMs)

MaxParts == 3

PartInputs ==
    { Part("no-store", << >>),
      Part("No-Store", << >>),
      Part("no-cache", << >>),
      Part("private", << >>),
      Part("public", << >>),
      Part("MAX-AGE=", <<"3", "6", "0", "0">>),
      Part("max-age=", <<"x">>),
      Part("max-age=", <<"1", "0", "s">>),
      Part("stale-while-revalidate=", <<"6", "0">>) }

RECURSIVE HeadersUpTo(_)
HeadersUpTo(n) ==
    IF n = 0 THEN { << >> }
    ELSE LET shorter == HeadersUpTo(n - 1)
         IN  shorter \cup { Append(h, part) : h \in shorter, part \in PartInputs }

InitParse ==
    /\ PureIdle
    /\ applied \in { << [header |-> h, parsed |-> FALSE, value |-> NoDirectives] >> :
                        h \in HeadersUpTo(MaxParts) }

\* parseCacheControl(header)
Parse ==
    /\ ~applied[1].parsed
    /\ applied' = << [applied[1] EXCEPT
                        !.parsed = TRUE,
                        !.value = parseCacheControl(applied[1].header)] >>
    /\ PureFrame

NextParse == Parse

SpecParse == InitParse /\ [][NextParse]_vars

\* the directives the specification assigns to a header: the recognized
\* tokens in any letter case, an integer field only from a valid integer
TokenOf(directives, part) ==
    LET text == ToLowerCase(part.text)
        integer == ValidInteger(part.arg)
    IN  CASE text = "no-store" /\ part.arg = << >> ->
                [directives EXCEPT !.noStore = TRUE]
          [] text = "no-cache" /\ part.arg = << >> ->
                [directives EXCEPT !.noCache = TRUE]
          [] text = "private" /\ part.arg = << >> ->
                [directives EXCEPT !.private = TRUE]
          [] text = "max-age=" /\ integer ->
                [directives EXCEPT !.maxAge = Num(DecimalValue(part.arg, 0))]
          [] text = "stale-while-revalidate=" /\ integer ->
                [directives EXCEPT
                    !.staleWhileRevalidate = Num(DecimalValue(part.arg, 0))]
          [] OTHER -> directives

RECURSIVE TokensOf(_, _)
TokensOf(parts, directives) ==
    IF parts = << >> THEN directives
    ELSE TokensOf(Tail(parts), TokenOf(directives, Head(parts)))

\* an integer argument that parseInt and the specification read alike:
\* digits only, or no leading digits at all
PlainArgument(part) == ValidInteger(part.arg) \/ IsNaN(ParseInt(part.arg))

\* C24 as the specification states it: parseCacheControl returns, for every
\* header, exactly the fields of its recognized tokens, a field left unset
\* when its integer is malformed, unknown tokens ignored, and the empty
\* directives for an absent or empty header.  The code reads the integer
\* with parseInt, which accepts a malformed integer that starts with digits.
C24_ParseTotal ==
    applied[1].parsed => applied[1].value = TokensOf(applied[1].header, NoDirectives)

\* the same for headers whose integers are digits only or have no leading
\* digits
C24_PlainArguments ==
    /\ applied[1].parsed
    /\ \A i \in 1 .. Len(applied[1].header) : PlainArgument(applied[1].header[i])
    => applied[1].value = TokensOf(applied[1].header, NoDirectives)

\* "private, max-age=3600, stale-while-revalidate=60" in upper case
C24_Example ==
    /\ applied[1].parsed
    /\ applied[1].header = << Part("private", << >>),
                              Part("MAX-AGE=", <<"3", "6", "0", "0">>),
                              Part("stale-while-revalidate=", <<"6", "0">>) >>
    /\ applied[1].value = [NoDirectives EXCEPT !.private = TRUE,
                                               !.maxAge = <<3600>>,
                                               !.staleWhileRevalidate = <<60>>]

\* max-age=10s sets maxAge to 10
C24_MalformedAccepted ==
    /\ applied[1].parsed
    /\ applied[1].header = << Part("max-age=", <<"1", "0", "s">>) >>
    /\ applied[1].value = [NoDirectives EXCEPT !.maxAge = <<10>>]

\* ---------------------------------------------------- generateCacheKey
KeyMethods == {"get", "Get", "GET", "post", "POST", "DELETE"}
KeyUrls == {"/jobs", "/usage", "https://api.example.com/data"}
\* the third argument: "" when it is left out
KeyHashes == {"", "k7f3", "1mo"}

KeyCall(m, u, h) == [method |-> m, url |-> u, authHash |-> h, called |-> FALSE,
                     value |-> << >>]
KeyCalls == { KeyCall(m, u, h) : m \in KeyMethods, u \in KeyUrls, h \in KeyHashes }

InitKey ==
    /\ PureIdle
    /\ applied \in { <<a, b>> : a \in KeyCalls, b \in KeyCalls }

\* the i-th call of generateCacheKey(method, url, authHash)
GenerateKey(i) ==
    /\ ~applied[i].called
    /\ applied' = [applied EXCEPT
                      ![i].called = TRUE,
                      ![i].value = generateCacheKey(applied[i].method,
                                       applied[i].url, applied[i].authHash)]
    /\ PureFrame

NextKey == \E i \in 1 .. 2 : GenerateKey(i)

SpecKey == InitKey /\ [][NextKey]_vars

\* the method in capitals
Capitals(m) ==
    CASE m \in {"get", "Get", "GET"} -> "GET"
      [] m \in {"post", "Post", "POST"} -> "POST"
      [] m = "DELETE" -> "DELETE"

\* METHOD:url or METHOD:url:identityHash, as the sequence of the parts
KeyOf(call) ==
    IF call.authHash = "" THEN << Capitals(call.method), call.url >>
    ELSE << Capitals(call.method), call.url, call.authHash >>

\* C25: generateCacheKey gives METHOD:url, or METHOD:url:identityHash when
\* a hash is given, with the method in capitals; two calls whose methods
\* differ only in letter case, and two calls with identical arguments, give
\* the same key.
C25_KeyFormat ==
    /\ \A i \in 1 .. 2 : applied[i].called => applied[i].value = KeyOf(applied[i])
    /\ ( /\ applied[1].called /\ applied[2].called
         /\ Capitals(applied[1].method) = Capitals(applied[2].method)
         /\ applied[1].url = applied[2].url
         /\ applied[1].authHash = applied[2].authHash )
       => applied[1].value = applied[2].value

\* get and GET on one URL with one hash: the same key, GET:url:hash
C25_Witness ==
    /\ applied[1].called /\ applied[2].called
    /\ applied[1].method = "get" /\ applied[2].method = "GET"
    /\ applied[1].url = applied[2].url
    /\ applied[1].authHash = "k7f3" /\ applied[2].authHash = "k7f3"
    /\ applied[1].value = applied[2].value
    /\ applied[1].value = << "GET", applied[1].url, "k7f3" >>

\* ----------------------------------------------------- compareVersions
\* the version strings compared: every triple over VersionNumbers, one with
\* a prerelease suffix, one with two fields, one with a field of no digits
ComparedVersions == ServerVersions

InitCompare ==
    /\ PureIdle
    /\ applied \in { << [a |-> a, b |-> b, c |-> c, called |-> FALSE,
                         ab |-> 0, ba |-> 0, bc |-> 0, ac |-> 0] >> :
                        a \in ComparedVersions, b \in ComparedVersions,
                        c \in ComparedVersions }

\* compareVersions on the pairs of three version strings
Compare ==
    /\ ~applied[1].called
    /\ applied' = << [applied[1] EXCEPT
                        !.called = TRUE,
                        !.ab = compareVersions(applied[1].a, applied[1].b),
                        !.ba = compareVersions(applied[1].b, applied[1].a),
                        !.bc = compareVersions(applied[1].b, applied[1].c),
                        !.ac = compareVersions(applied[1].a, applied[1].c)] >>
    /\ PureFrame

NextCompare == Compare

SpecCompare == InitCompare /\ [][NextCompare]_vars

\* C26: compareVersions orders version strings by their (major, minor,
\* patch) triples, a prerelease suffix ignored and an unparsable string
\* taken as (0,0,0): the result is -1, 0 or 1, it is -1 exactly when the
\* first triple is lexicographically smaller (major before minor before
\* patch) and 0 exactly when the triples are equal, swapping the arguments
\* negates it, and it is transitive.
C26_TotalOrder ==
    applied[1].called =>
        LET ta == Triple(applied[1].a)
            tb == Triple(applied[1].b)
        IN  /\ applied[1].ab \in {-1, 0, 1}
            /\ applied[1].ab = 0 - applied[1].ba
            /\ applied[1].ab = 0 <=> ta = tb
            /\ applied[1].ab = -1 <=> LexLess(ta, tb)
            /\ applied[1].ab = 1 <=> LexLess(tb, ta)
            /\ applied[1].ab <= 0 /\ applied[1].bc <= 0 => applied[1].ac <= 0

\* 1.1.0-beta equals 1.1.0, and 1.0.2 lies below both
C26_Witness ==
    /\ applied[1].called
    /\ applied[1].a = Version(1, 0, 2)
    /\ applied[1].b = [parts |-> <<1, 1, 0>>, pre |-> <<"b", "e", "t", "a">>]
    /\ applied[1].c = Version(1, 1, 0)
    /\ applied[1].ab = -1 /\ applied[1].ba = 1
    /\ applied[1].bc = 0 /\ applied[1].ac = -1

\* a string with two fields compares as 0.0.0
C26_WitnessUnparsable ==
    /\ applied[1].called
    /\ applied[1].a = [parts |-> <<1, 1>>, pre |-> << >>]
    /\ applied[1].b = Version(0, 0, 1)
    /\ applied[1].ab = -1

\* =====================================================================
\* A request that asks to bypass the cache
\* =====================================================================
\* The client is handed a cache that may already hold a fresh entry for
\* GET /jobs, and each call may carry skipCache in its init argument.
\* fetchWithRetry reads init.method and nothing else of init.
JobsEntry == createCacheEntry("obj1", << Part("max-age=", <<"1">>) >>, 0)[1]

StoresHandedIn ==
    { << >>,
      << [key |-> generateCacheKey("GET", "/jobs", "k7f3"), entry |-> JobsEntry] >> }

InitBypass ==
    /\ config \in { c \in Configs : c.maxRetries <= 1 }
    /\ build \in Builds
    /\ maxEntries \in Capacities
    /\ store \in StoresHandedIn
    /\ now = 0
    /\ ClientFresh
    /\ RequestIdle
    /\ SideIdle
    /\ cacheCall = NoCall
    /\ cacheCalls = 0
    /\ firstSets = NoSets

\* fetchWithRetry(url, { method, skipCache })
ExecuteWith(m, u, skipCache) ==
    /\ StartRequest(m, u)
    /\ requestInit' = << [skipCache |-> skipCache] >>
    /\ UNCHANGED <<cacheCall, cacheCalls, firstSets, tracked, credentials, served,
                   inflight, applied, received>>

NextBypass ==
    \/ \E m \in MethodInputs, u \in Urls, skipCache \in BOOLEAN :
          ExecuteWith(m, u, skipCache)
    \/ \E r \in Responses, j \in RandomDraws : FetchResolves(r, j)
    \/ \E e \in FetchRejections, j \in RandomDraws : FetchRejects(e, j)
    \/ RetryWait
    \/ OnResponse
    \/ \E d \in Ticks : Tick(d)

SpecBypass == InitBypass /\ [][NextBypass]_vars

\* a GET is under way or has ended
GetStarted == requestInit # NoInit /\ method = "GET"

\* it made no cache lookup and has made, or is about to make, an attempt
WentToTransport ==
    /\ cacheOps = << >>
    /\ pc \in {"responded", "done"} => fetches >= 1

\* C27 as the specification states it: a GET executed with skipCache set,
\* or with caching disabled, makes no cache lookup and always makes a
\* transport attempt, also when a fresh entry for its key is stored.  The
\* code has no skipCache: with caching enabled the lookup is made whatever the
\* init argument holds, and a fresh entry answers the request.
C27_BypassGoesToTransport ==
    GetStarted /\ (requestInit[1].skipCache \/ ~config.cacheEnabled) =>
        WentToTransport

\* the half of it that the code has: caching disabled
C27_DisabledGoesToTransport ==
    GetStarted /\ ~config.cacheEnabled => WentToTransport

\* caching disabled, a fresh entry for the key stored: the GET has ended
\* after an attempt
C27_DisabledWitness ==
    /\ GetStarted /\ ~config.cacheEnabled
    /\ url = "/jobs"
    /\ Ended /\ fetches >= 1 /\ cacheOps = << >>
    /\ ServableEntries(generateCacheKey("GET", "/jobs", "k7f3"), now) # { }

\* skipCache set, caching enabled: the GET was answered from the cache
C27_SkipIgnored ==
    /\ GetStarted /\ requestInit[1].skipCache /\ config.cacheEnabled
    /\ Ended /\ fetches = 0 /\ cacheOps = <<"get-hit">>

\* =====================================================================
\* Concurrent requests of one client on one MemoryCache
\* =====================================================================
\* Each request is a run of fetchWithRetry for a GET with caching enabled,
\* cut at its awaits: the lookup, the fetch, the read of the body, and the
\* store.  The methods of MemoryCache hold no await, so each runs in one
\* piece. A response that is not stored ends the request after the fetch.
SharedCapacities == {0, 1, 2}

\* the body the server holds for a URL
BodyOf(u) == IF u = "/jobs" THEN "{id:1}" ELSE "{id:2}"

StoredHeaders ==
    { << >>,
      << Part("max-age=", <<"1">>) >>,
      << Part("max-age=", <<"0">>), Part("stale-while-revalidate=", <<"1">>) >> }

Waiting == [pc |-> "idle", url |-> "", header |-> << >>]

InitConcurrent ==
    /\ config = [maxRetries |-> 0, cacheEnabled |-> TRUE, apiKeyHash |-> "k7f3"]
    /\ build = [MIN_API_VERSION |-> Version(0, 0, 0),
                MAX_KNOWN_API_VERSION |-> Version(0, 0, 0)]
    /\ ClientFresh
    /\ RequestIdle
    /\ maxEntries \in SharedCapacities
    /\ store = << >>
    /\ now = 0
    /\ cacheCall = NoCall
    /\ cacheCalls = 0
    /\ firstSets = NoSets
    /\ tracked = << >>
    /\ credentials = << >>
    /\ served = << >>
    /\ applied = NotApplied
    /\ requestInit = NoInit
    /\ received = << >>
    /\ inflight = [i \in RequestIds |-> Waiting]

ConcurrentFrame ==
    UNCHANGED <<clientVars, callVars, firstSets, tracked, credentials, served,
                applied, requestInit, received>>

\* request i starts a GET of u: await cache.get(cacheKey)
ConcLookup(i, u) ==
    /\ inflight[i].pc = "idle"
    /\ LET cacheKey == generateCacheKey("GET", u, config.apiKeyHash)
           got == MemoryCacheGet(store, cacheKey, now)
       IN  /\ store' = got.store
           /\ cacheCall' = CacheCall("get", cacheKey, << >>, got.entry, << >>)
           /\ inflight' = [inflight EXCEPT ![i] =
                              [pc |-> IF got.entry # << >> THEN "done" ELSE "fetching",
                               url |-> u, header |-> << >>]]
    /\ cacheCalls' = cacheCalls + 1
    /\ now' = now
    /\ ConcurrentFrame

\* the fetch of request i resolves with a 200 that carries Cache-Control
ConcReceive(i, header) ==
    /\ inflight[i].pc = "fetching"
    /\ inflight' = [inflight EXCEPT ![i].pc = "reading", ![i].header = header]
    /\ UNCHANGED <<store, now, cacheCall, cacheCalls>>
    /\ ConcurrentFrame

\* the body of request i is read: createCacheEntry and, for an entry,
\* cache.set(cacheKey, entry)
ConcStore(i) ==
    /\ inflight[i].pc = "reading"
    /\ LET cacheKey == generateCacheKey("GET", inflight[i].url, config.apiKeyHash)
           entry == createCacheEntry(JsonParse(BodyOf(inflight[i].url))[1],
                                     inflight[i].header, now)
       IN  IF entry = << >>
           THEN UNCHANGED <<store, cacheCall, cacheCalls>>
           ELSE /\ store' = MemoryCacheSet(store, cacheKey, entry[1], maxEntries)
                /\ cacheCall' = CacheCall("set", cacheKey, entry, << >>,
                                          EvictedKey(store, entry[1], maxEntries))
                /\ cacheCalls' = cacheCalls + 1
    /\ inflight' = [inflight EXCEPT ![i].pc = "done"]
    /\ now' = now
    /\ ConcurrentFrame

ConcTick(d) ==
    /\ now + d <= MaxNow
    /\ now' = now + d
    /\ UNCHANGED <<store, cacheCall, cacheCalls, inflight>>
    /\ ConcurrentFrame

NextConcurrent ==
    \/ \E i \in RequestIds, u \in Urls : ConcLookup(i, u)
    \/ \E i \in RequestIds, header \in StoredHeaders : ConcReceive(i, header)
    \/ \E i \in RequestIds : ConcStore(i)
    \/ \E d \in Ticks : ConcTick(d)

SpecConcurrent == InitConcurrent /\ [][NextConcurrent]_vars

\* every entry stored under the key of a URL holds the body of that URL,
\* and no key is stored twice
WrittenForKey ==
    /\ \A i \in 1 .. Len(store) :
          \E u \in Urls :
              /\ store[i].key = << "GET", u, config.apiKeyHash >>
              /\ << store[i].entry.value >> = JsonParse(BodyOf(u))
    /\ \A i \in 1 .. Len(store), j \in 1 .. Len(store) :
          store[i].key = store[j].key => i = j

\* a set on a store at capacity removes exactly the oldest entry
EvictsOneStep ==
    Called("set") /\ Len(store) >= maxEntries =>
        /\ store # << >>
        /\ cacheCall'.evicted = << store[1].key >>
        /\ \A i \in 2 .. Len(store) :
              \E j \in 1 .. Len(store') :
                  /\ store'[j].key = store[i].key
                  /\ store[i].key # cacheCall'.key => store'[j] = store[i]

\* C28 as the specification states it: under every interleaving of the
\* cache calls of concurrent requests the size never exceeds the capacity,
\* a set at capacity evicts exactly one entry, and every entry stored under
\* a key was written by a set for that key.  A cache of capacity 0 keeps
\* one entry, which its set had nothing to evict for.
C28_ConsistentStates == Len(store) <= maxEntries /\ WrittenForKey

C28_ConcurrentConsistent == []C28_ConsistentStates /\ [][EvictsOneStep]_vars

\* the same for a capacity of at least 1
C28_PositiveCapacityStates == maxEntries >= 1 => C28_ConsistentStates

C28_PositiveCapacityStep == maxEntries >= 1 => EvictsOneStep

C28_PositiveCapacity ==
    []C28_PositiveCapacityStates /\ [][C28_PositiveCapacityStep]_vars

\* both requests looked up before either stored, and the second store
\* evicted the entry of the first
C28_InterleavedEviction ==
    /\ maxEntries = 1
    /\ \A i \in RequestIds : inflight[i].pc = "done"
    /\ cacheCalls = 4
    /\ cacheCall.op = "set"
    /\ cacheCall.evicted # << >>
    /\ Len(store) = 1

\* =====================================================================
\* The version check and the cache write
\* =====================================================================
\* the request has ended with the rejection of its response by the check
RejectedByCheck == Ended /\ result = Thrown("UnsupportedAPIVersionError", 0)

C30_ServedRejected ==
    /\ calls = 2
    /\ pc = "responded"
    /\ cacheOps = <<"get-hit">>
    /\ versionEvals = 1
    /\ ~apiVersionChecked
    /\ response.status = 200

\* with the constants of the sources no response is rejected
C30_SourceBuildNeverRejects == SourceBuild => ~RejectedByCheck

\* =====================================================================
\* The version header across the responses of one client
\* =====================================================================
\* the middleware is about to handle the first 2xx response of the client,
\* and that response carries no X-API-Version header; the middleware has
\* handled it in the step that takes pc to "done"
FirstOkWithoutHeader ==
    /\ pc = "responded"
    /\ ~apiVersionChecked
    /\ Ok(response)
    /\ response.apiVersion = << >>

\* C31 as the specification states it: a first successful response without
\* a version header still ends the request with its value, and one warning
\* is logged for the missing header.
C31_MissingHeaderStep ==
    (FirstOkWithoutHeader /\ pc' = "done") =>
        /\ result' = Value(response)
        /\ versionWarnings' = versionWarnings + 1

C31_MissingHeaderWarned == [][C31_MissingHeaderStep]_vars

\* the half of C31 the code keeps: the request succeeds and the check is
\* not evaluated
C31_SucceedsStep ==
    (FirstOkWithoutHeader /\ pc' = "done") =>
        /\ result' = Value(response)
        /\ versionEvals' = versionEvals
        /\ apiVersionChecked'

C31_MissingHeaderSucceeds == [][C31_SucceedsStep]_vars

\* what the code does with the warning: none is logged
C31_SilentStep == FirstOkWithoutHeader => versionWarnings' = versionWarnings

C31_MissingHeaderSilent == [][C31_SilentStep]_vars

\* a request of a client has ended with the value of a first 2xx response
\* without header from the transport, and no warning has been logged
C31_EndedUnwarned ==
    /\ Ended
    /\ calls = 1
    /\ hist # << >>
    /\ Is2xx(Last(hist))
    /\ apiVersionChecked
    /\ versionEvals = 0
    /\ versionWarnings = 0
    /\ result.kind = "value"

\* One client over the responses of its lifetime, one request after the
\* other: fetchWithRetry returns a response (no retries, no cache), the
\* middleware handles it.  received keeps the responses in their order.
MaxSession == 3

SessionStatuses == {200, 404, 503}

SessionResponses ==
    { Resp(st, << >>, << >>, v, IF st = 200 THEN "{id:1}" ELSE "{\"error\":\"x\"}") :
          st \in SessionStatuses, v \in VersionHeaders }

InitSession ==
    /\ config = [maxRetries |-> 0, cacheEnabled |-> FALSE, apiKeyHash |-> "k7f3"]
    /\ build \in Builds
    /\ ClientFresh
    /\ RequestIdle
    /\ CacheIdle
    /\ SideIdle

\* a request whose single attempt is answered with r
SessionReceive(r) ==
    /\ pc \in {"idle", "done"}
    /\ Len(received) < MaxSession
    /\ calls' = calls + 1
    /\ received' = Append(received, r)
    /\ pc' = "responded"
    /\ method' = "GET"
    /\ url' = "/jobs"
    /\ attempt' = 1
    /\ lastError' = << >>
    /\ pending' = NoSleep
    /\ response' = r
    /\ result' = NoResult
    /\ fetches' = 1
    /\ sleeps' = << >>
    /\ hist' = << [kind |-> "response", status |-> r.status] >>
    /\ cacheOps' = << >>
    /\ UNCHANGED <<config, build, maxEntries, apiVersionChecked, versionEvals,
                   versionWarnings, store, now, cacheCall, cacheCalls, firstSets,
                   tracked, credentials, served, inflight, applied, requestInit>>

NextSession ==
    \/ \E r \in SessionResponses : SessionReceive(r)
    \/ OnResponse

SpecSession == InitSession /\ [][NextSession]_vars

\* the middleware handles the response in hand in this step
Handles == pc = "responded" /\ pc' = "done"

RaisedBuild == build.MIN_API_VERSION = Version(1, 0, 0)

\* C32 on one step of the middleware of a client whose flag is set
C32_LaterStep ==
    (Handles /\ apiVersionChecked) =>
        /\ versionEvals' = versionEvals
        /\ versionWarnings' = versionWarnings
        /\ result'.tag # "UnsupportedAPIVersionError"
        /\ Ok(response) => result' = Value(response)
        /\ apiVersionChecked'

\* C32: once the version check has passed for a client (apiVersionChecked
\* is set), no later response, whatever version header it carries, ends a
\* request with UnsupportedAPIVersionError or logs a version warning; the
\* check is not evaluated again and the flag stays set.
C32_NoLaterCheck ==
    [][C32_LaterStep /\ (apiVersionChecked => apiVersionChecked')]_vars

\* a server at 1.0.0 passed the check of a build whose minimum is 1.0.0; the
\* next response came from a server at 0.9.0 and ended with its value
C32_Witness ==
    /\ Ended
    /\ RaisedBuild
    /\ Len(received) = 2
    /\ received[1].status = 200 /\ received[1].apiVersion = <<Version(1, 0, 0)>>
    /\ received[2].status = 200 /\ received[2].apiVersion = <<Version(0, 9, 0)>>
    /\ versionEvals = 1
    /\ apiVersionChecked
    /\ result.kind = "value"

\* the next response came from a server at 2.0.0 and logged no warning
C32_WitnessNewer ==
    /\ Ended
    /\ RaisedBuild
    /\ Len(received) = 2
    /\ received[1].status = 200 /\ received[1].apiVersion = <<Version(1, 0, 0)>>
    /\ received[2].status = 200 /\ received[2].apiVersion = <<Version(2, 0, 0)>>
    /\ versionWarnings = 0
    /\ result.kind = "value"

\* none of the first n responses of the client was a 2xx
NoOkAmong(n) == \A i \in 1 .. n : ~Ok(received[i])

\* a non-2xx response leaves the version check alone
C33_FailedStep ==
    (Handles /\ ~Ok(response)) =>
        /\ versionEvals' = versionEvals
        /\ versionWarnings' = versionWarnings
        /\ apiVersionChecked' = apiVersionChecked
        /\ result'.kind = "error"
        /\ result'.tag # "UnsupportedAPIVersionError"

\* the first 2xx response finds the check still due, and a version header
\* on it is evaluated
C33_FirstOkStep ==
    (Handles /\ Ok(response) /\ NoOkAmong(Len(received) - 1)) =>
        /\ ~apiVersionChecked
        /\ versionEvals = 0
        /\ versionEvals' = IF response.apiVersion # << >> THEN 1 ELSE 0

\* while the client has received failures only, nothing is checked or marked
C33_FailuresOnly ==
    NoOkAmong(Len(received)) =>
        /\ ~apiVersionChecked
        /\ versionEvals = 0
        /\ versionWarnings = 0

\* C33: a non-2xx response never runs the version check and never sets
\* apiVersionChecked, whatever header it carries, so after any number of
\* failed responses the check still runs on the first 2xx response.
C33_FailuresDoNotCheck ==
    []C33_FailuresOnly /\ [][C33_FailedStep /\ C33_FirstOkStep]_vars

\* two failures, one of them from a server at 0.9.0, then a 2xx response of
\* that server: it is checked and rejected by a build whose minimum is 1.0.0
C33_Witness ==
    /\ Ended
    /\ RaisedBuild
    /\ Len(received) = 3
    /\ received[1].status = 503 /\ received[1].apiVersion = <<Version(0, 9, 0)>>
    /\ received[2].status = 404
    /\ received[3].status = 200 /\ received[3].apiVersion = <<Version(0, 9, 0)>>
    /\ versionEvals = 1
    /\ result = Thrown("UnsupportedAPIVersionError", 0)

\* =====================================================================
\* The constructor's configuration
\* =====================================================================
DEFAULT_TIMEOUT == 30000
DEFAULT_MAX_RETRIES == 3

\* value || fallback on an optional number: undefined and 0 are falsy
OrDefault(value, fallback) ==
    IF value = << >> \/ value[1] = 0 THEN fallback ELSE value[1]

\* this.config as the constructor fills it from the RefyneConfig supplied
RefyneConfigOf(supplied) ==
    [timeout |-> OrDefault(supplied.timeout, DEFAULT_TIMEOUT),
     maxRetries |-> OrDefault(supplied.maxRetries, DEFAULT_MAX_RETRIES),
     cacheEnabled |-> (supplied.cacheEnabled # <<FALSE>>),
     apiKeyHash |-> "k7f3"]

\* The RefyneConfig objects handed to the constructor: timeout and
\* maxRetries left out, 0, or positive; the cache switched off.
SuppliedTimeouts == { << >>, <<0>>, <<60000>> }
SuppliedRetries == { << >>, <<0>>, <<1>> }
SuppliedConfigs ==
    [timeout : SuppliedTimeouts, maxRetries : SuppliedRetries,
     cacheEnabled : { <<FALSE>> }]

\* the responses and failures the requests of such a client meet
ConstructResponses ==
    { Resp(200, << >>, << >>, << >>, "{id:1}"),
      Resp(503, << >>, << >>, << >>, "{\"error\":\"x\"}") }
ConstructRejections == { [name |-> "TypeError", message |-> "fetch failed"] }

\* new Refyne(supplied): applied keeps the object supplied
InitConstruct ==
    /\ applied \in SuppliedConfigs
    /\ config = RefyneConfigOf(applied)
    /\ build = [MIN_API_VERSION |-> Version(0, 0, 0),
                MAX_KNOWN_API_VERSION |-> Version(0, 0, 0)]
    /\ ClientFresh
    /\ RequestIdle
    /\ CacheIdle
    /\ tracked = << >>
    /\ credentials = << >>
    /\ served = << >>
    /\ inflight = << >>
    /\ requestInit = NoInit
    /\ received = << >>

NextConstruct ==
    \/ Execute("GET", "/jobs")
    \/ \E r \in ConstructResponses : FetchResolves(r, 0)
    \/ \E e \in ConstructRejections : FetchRejects(e, 0)
    \/ RetryWait
    \/ OnResponse

SpecConstruct == InitConstruct /\ [][NextConstruct]_vars

\* the value a client is expected to use for an optional number: the
\* default only when none was supplied
SuppliedOr(value, fallback) == IF value = << >> THEN fallback ELSE value[1]

\* C34 as the specification states it: the client uses the timeout and the
\* maxRetries the caller supplied, the defaults (30000 ms, 3 retries) only
\* for a value not supplied, and a supplied maxRetries of 0 makes exactly
\* one transport attempt per request.
C34_SuppliedValuesUsed ==
    /\ config.timeout = SuppliedOr(applied.timeout, DEFAULT_TIMEOUT)
    /\ config.maxRetries = SuppliedOr(applied.maxRetries, DEFAULT_MAX_RETRIES)
    /\ applied.maxRetries = <<0>> => fetches <= 1
    /\ (applied.maxRetries = <<0>> /\ Ended) => fetches = 1

\* what holds: a value left out gives the default, a positive value is used
C34_PositiveValuesUsed ==
    /\ applied.timeout \notin { <<0>> } =>
          config.timeout = SuppliedOr(applied.timeout, DEFAULT_TIMEOUT)
    /\ applied.maxRetries \notin { <<0>> } =>
          config.maxRetries = SuppliedOr(applied.maxRetries, DEFAULT_MAX_RETRIES)
    /\ fetches <= config.maxRetries + 1

\* and a supplied 0 is replaced by the default
C34_ZeroReplaced ==
    /\ applied.timeout = <<0>> => config.timeout = DEFAULT_TIMEOUT
    /\ applied.maxRetries = <<0>> => config.maxRetries = DEFAULT_MAX_RETRIES

\* a request of a client built with maxRetries: 0 has made four attempts
C34_ZeroRetriesRetried ==
    /\ applied.maxRetries = <<0>>
    /\ Ended
    /\ fetches = 4
    /\ Len(sleeps) = 3

\* the first 2xx response of the client carried no version header, and the
\* middleware has handled it
HeaderlessFirstHandled ==
    \E k \in 1 .. Len(received) :
        /\ Ok(received[k])
        /\ received[k].apiVersion = << >>
        /\ NoOkAmong(k - 1)
        /\ k < Len(received) \/ Ended

\* from then on the check counts as done and nothing has been evaluated
C35_MarkedDone ==
    HeaderlessFirstHandled =>
        /\ apiVersionChecked
        /\ versionEvals = 0
        /\ versionWarnings = 0
        /\ result.tag # "UnsupportedAPIVersionError"

\* a later response is handled without the check, whatever its version
C35_LaterStep ==
    (Handles /\ HeaderlessFirstHandled) =>
        /\ versionEvals' = 0
        /\ Ok(response) => result' = Value(response)
        /\ ~Ok(response) => result' = createErrorFromResponse(response)

\* C35: when the first successful response of a client carries no version
\* header the one-shot check is marked as done all the same, so a later
\* response whose version is below the minimum is not checked and does not
\* fail.
C35_HeaderlessMarksDone == []C35_MarkedDone /\ [][C35_LaterStep]_vars

\* a 2xx response without header, then one of a server at 0.9.0 under a
\* minimum of 1.0.0: the second request ended with its value, unchecked
C35_Witness ==
    /\ Ended
    /\ RaisedBuild
    /\ Len(received) = 2
    /\ received[1].status = 200 /\ received[1].apiVersion = << >>
    /\ received[2].status = 200 /\ received[2].apiVersion = <<Version(0, 9, 0)>>
    /\ versionEvals = 0
    /\ apiVersionChecked
    /\ result.kind = "value"

\* =====================================================================
\* A CacheStore that throws
\* =====================================================================
\* The client is handed a CacheStore of the caller's own whose get and set
\* may throw (or reject) on any call; when they do not, it behaves as the
\* MemoryCache.
InitFaulty ==
    /\ config \in { c \in Configs : c.cacheEnabled /\ c.maxRetries <= 1 }
    /\ build = [MIN_API_VERSION |-> Version(0, 0, 0),
                MAX_KNOWN_API_VERSION |-> Version(0, 0, 0)]
    /\ maxEntries \in Capacities
    /\ store = << >>
    /\ now = 0
    /\ ClientFresh
    /\ RequestIdle
    /\ SideIdle
    /\ cacheCall = NoCall
    /\ cacheCalls = 0
    /\ firstSets = NoSets

\* fetchWithRetry(url, { method }) against that store
ExecuteOn(m, u, getThrows) ==
    /\ StartRequestOn(m, u, getThrows)
    /\ UNCHANGED sideVars

NextFaulty ==
    \/ \E m \in MethodInputs, u \in Urls, getThrows \in BOOLEAN :
          ExecuteOn(m, u, getThrows)
    \/ \E r \in Responses, j \in RandomDraws, setThrows \in BOOLEAN :
          FetchResolvesOn(r, j, setThrows)
    \/ \E e \in FetchRejections, j \in RandomDraws : FetchRejects(e, j)
    \/ RetryWait
    \/ OnResponse
    \/ \E d \in Ticks : Tick(d)

SpecFaulty == InitFaulty /\ [][NextFaulty]_vars

\* the lookup of the request in hand threw; its write threw
GetThrew == cacheOps # << >> /\ cacheOps[1] = "get-error"
SetThrew == cacheOps # << >> /\ Last(cacheOps) = "set-error"

\* the step in which the lookup throws goes on to the first attempt, with
\* the store as it was, whatever the store holds under the key
C38_GetErrorStep ==
    GetThrew' /\ calls' = calls + 1 =>
        /\ pc' = "fetching"
        /\ result' = NoResult
        /\ attempt' = 0
        /\ store' = store

\* the step in which the write throws hands the 2xx response on
C38_SetErrorStep ==
    SetThrew' /\ ~SetThrew =>
        /\ pc' = "responded"
        /\ Ok(response')
        /\ result' = NoResult
        /\ store' = store

\* a request whose lookup threw has been to the transport when it ends, and
\* a request whose write threw ends with the value of the response
C38_Outcomes ==
    /\ GetThrew /\ pc \in {"responded", "done"} => fetches >= 1
    /\ SetThrew /\ Ended => result.kind = "value" /\ Is2xx(Last(hist))

\* C38: a CacheStore whose get or set throws does not make the request
\* fail: after a get error the request goes to the transport as after a
\* miss, and after a set error the successful response is still returned.
C38_CacheErrorsSwallowed ==
    []C38_Outcomes /\ [][C38_GetErrorStep /\ C38_SetErrorStep]_vars

\* the second GET of a URL found the entry of the first in the store, its
\* lookup threw, and it ended with the value the transport returned
C38_WitnessGet ==
    /\ Ended
    /\ calls = 2
    /\ store # << >>
    /\ store[1].key = generateCacheKey(method, url, config.apiKeyHash)
    /\ cacheOps = <<"get-error">>
    /\ fetches = 1
    /\ result.kind = "value"

\* a GET whose lookup and whose write both threw ended with the value
C38_WitnessSet ==
    /\ Ended
    /\ cacheOps = <<"get-error", "set-error">>
    /\ store = << >>
    /\ result.kind = "value"

\* =====================================================================
\* Requests that are not GETs
\* =====================================================================
\* The client is handed a cache that may hold a fresh entry for GET /jobs
\* and is asked for reads and writes of the same URLs.
WriteMethods == {"POST", "post", "PUT", "DELETE"}

InitWrites ==
    /\ config \in { c \in Configs : c.cacheEnabled /\ c.maxRetries <= 1 }
    /\ build = [MIN_API_VERSION |-> Version(0, 0, 0),
                MAX_KNOWN_API_VERSION |-> Version(0, 0, 0)]
    /\ maxEntries \in Capacities
    /\ store \in StoresHandedIn
    /\ now = 0
    /\ ClientFresh
    /\ RequestIdle
    /\ SideIdle
    /\ cacheCall = NoCall
    /\ cacheCalls = 0
    /\ firstSets = NoSets

NextWrites ==
    \/ \E m \in WriteMethods \cup {"GET"}, u \in Urls : Execute(m, u)
    \/ \E r \in Responses, j \in RandomDraws : FetchResolves(r, j)
    \/ \E e \in FetchRejections, j \in RandomDraws : FetchRejects(e, j)
    \/ RetryWait
    \/ OnResponse
    \/ \E d \in Ticks : Tick(d)

SpecWrites == InitWrites /\ [][NextWrites]_vars

\* the key under which a GET of the URL in hand is cached
GetKey == generateCacheKey("GET", url, config.apiKeyHash)

\* no step of a request that is not a GET touches the cache
C39_NonGetStep ==
    method' # "GET" =>
        /\ store' = store
        /\ cacheOps' = << >>

\* a GET that follows a successful request of another method is answered
\* with the entry the store holds for its URL
C39_LaterGetStep ==
    (/\ Starts
     /\ Ended /\ method # "GET" /\ result.kind = "value"
     /\ method' = "GET") =>
        \A entry \in ServableEntries(GetKey', now) :
            /\ pc' = "responded"
            /\ response' = CachedResponse(entry)
            /\ cacheOps' = <<"get-hit">>

\* C39: a request whose method is not GET never reads, adds, replaces or
\* removes a cache entry: the entry cached for a URL is as it was after a
\* successful POST, PUT or DELETE of that URL, and a later GET is still
\* answered with it.
C39_NonGetLeavesCache ==
    [](method # "GET" => cacheOps = << >>)
        /\ [][C39_NonGetStep /\ C39_LaterGetStep]_vars

\* a POST of /jobs answered 200 has ended with its value, and the store
\* still holds the entry for GET /jobs and nothing else, servable now
C39_Witness ==
    /\ Ended
    /\ method = "POST"
    /\ url = "/jobs"
    /\ Is2xx(Last(hist))
    /\ result.kind = "value"
    /\ store = << [key |-> GetKey, entry |-> JobsEntry] >>
    /\ ServableEntries(GetKey, now) = { JobsEntry }

\* the same after a DELETE
C39_WitnessDelete ==
    /\ Ended
    /\ method = "DELETE"
    /\ url = "/jobs"
    /\ result.kind = "value"
    /\ ServableEntries(GetKey, now) = { JobsEntry }

\* =====================================================================
\* The exponent of a backoff wait
\* =====================================================================
\* the request is in a backoff wait
InBackoff == pc = "sleeping" /\ pending.source = "backoff"

\* the delays calculateBackoffWithJitter can return for attempt n with the
\* defaults: the component min(2^(n-1) * 1000, 30000) and its jitter
BackoffDelays(n) ==
    LET component == NonJittered(n, DEFAULT_BASE_MS, DEFAULT_MAX_MS)
    IN  { Num(component + ((j * component) \div 400)) : j \in RandomDraws }

\* an earlier attempt of the request was answered 429
RateLimitedBefore == \E i \in 1 .. Len(hist) - 1 : Is429(hist[i])

\* C40: the exponent of a backoff wait is the overall attempt number of the
\* request: a 5xx or a network failure at attempt k waits with the
\* component min(2^(k-1) * 1000, 30000), also when earlier attempts were
\* answered 429 and waited Retry-After, so no wait after the first attempt
\* starts from the base delay again; every wait carries its attempt number.
C40_OverallAttempt ==
    /\ InBackoff =>
          /\ attempt = Len(hist)
          /\ pending.attempt = attempt
          /\ ~Is2xx(Last(hist)) /\ ~Is429(Last(hist))
          /\ pending.ms \in BackoffDelays(Len(hist))
          /\ Len(hist) > 1 => pending.ms[1] >= 2 * DEFAULT_BASE_MS
    /\ \A i \in 1 .. Len(sleeps) : sleeps[i].attempt = i

\* a 429 that waited Retry-After and then a 503: the second attempt waits
\* from 2000 ms
C40_Witness ==
    /\ InBackoff
    /\ Len(hist) = 2
    /\ Is429(hist[1]) /\ Is5xx(hist[2])
    /\ sleeps = <<RetryAfterSleep(1)>>
    /\ pending.ms = Num(2000)

\* a 429 and then a network failure
C40_WitnessNetwork ==
    /\ InBackoff
    /\ RateLimitedBefore
    /\ Last(hist).kind = "network"
    /\ pending.ms[1] >= 2000

====
